---- MODULE Spec2Model ----
(***************************************************************************)
(* A model of dataview-stream: the sequential typed reader                 *)
(* (src/src/reader.ts), the chunked typed writer (src/src/writer.ts) and    *)
(* the packet accumulator (src/src/packet.ts).                              *)
(*                                                                         *)
(* Integers wider than 31 bits do not fit TLC's integers, so every decoded *)
(* integer is kept as a sign and a big-endian base-256 magnitude without   *)
(* leading zeros.  A JavaScript value is a record [t, n, s, a]: t is the   *)
(* type tag, n a small integer, s a sequence of integers, a a sequence of  *)
(* values (array elements).                                                *)
(***************************************************************************)
EXTENDS Integers, Sequences, FiniteSets, TLC

\* ------------------------------------------------------------------ bounds
\* Longest input buffer handed to a reader.
MaxLen == 8
\* Largest length argument of bytes/ascii/utf8/skip and of seek.
MaxArg == 4
\* Largest repetition count given to times.
MaxTimes == 4
\* A strict reader's cursor grows on every failed read; reads are modelled
\* only while the cursor stays at or below this cap.
MaxOffset == 12
\* Most writes made to a writer between two of its clear()/read() calls.
MaxWrites == 3
\* Most calls made on a Packet between two of its reset() calls.
MaxCalls == 3
\* Most promises returned by the waitFor, read and peek calls made on a
\* sink.
MaxWaits == 3
\* Most bytes a sink is given in all.
MaxQueued == 4

VARIABLES
  bytes,            \* DataViewReader.#bytes: the input buffer
  offset,           \* DataViewReader.#offset
  truncated,        \* DataViewReader.#truncated
  allowTruncation,  \* DataViewReader.#allowTruncation
  little,           \* DataViewReader.#little
  fatal,            \* DataViewReader.#td is the fatal decoder (TDF)
  ret,              \* what the last call returned or raised
  opts,             \* DataViewWriter.#opts
  chunks,           \* DataViewWriter.#chunks
  dv,               \* DataViewWriter.#dv
  woffset,          \* DataViewWriter.#offset
  wlength,          \* DataViewWriter.#length
  written,          \* the bytes of the accepted writes since the last clear
  nwrites,          \* how many writes were accepted since the last clear
  packet,           \* Packet.#packet: the output record
  temp,             \* Packet.#temp: the temporary record
  ncalls,           \* how many Packet calls were made since the last reset
  queue,            \* WritableSink.#q: the queued chunks
  qlen,             \* WritableSink.#len
  qoffset,          \* WritableSink.#offset
  closed,           \* WritableSink.#closed
  waiting,          \* WritableSink.#waiting, id 0 for undefined
  promises,         \* the promises waitFor and read have returned
  stream            \* DataViewReadableStream: its fields, what it enqueued
                    \* to its controller, and the bytes it was given

readerVars == <<bytes, offset, truncated, allowTruncation, little, fatal>>
writerVars == <<opts, chunks, dv, woffset, wlength, written, nwrites>>
packetVars == <<packet, temp, ncalls>>
sinkVars == <<queue, qlen, qoffset, closed, waiting, promises>>
vars == <<readerVars, ret, writerVars, packetVars, sinkVars, stream>>

\* ------------------------------------------------------------------ values
Val(t, n, s, a) == [t |-> t, n |-> n, s |-> s, a |-> a]
Undefined == Val("undefined", 0, <<>>, <<>>)
NaN == Val("NaN", 0, <<>>, <<>>)
Bool(b) == Val("boolean", IF b THEN 1 ELSE 0, <<>>, <<>>)
Bytes(s) == Val("bytes", 0, s, <<>>)
Str(s) == Val("string", 0, s, <<>>)
Arr(a) == Val("array", 0, <<>>, a)

RECURSIVE Strip(_)
\* Drop the leading zero digits of a big-endian magnitude.
Strip(s) == IF s # <<>> /\ Head(s) = 0 THEN Strip(Tail(s)) ELSE s

\* An integer: n = 1 marks a negative value, s is the magnitude.
Number(neg, mag) ==
  LET m == Strip(mag)
  IN Val("number", IF neg /\ m # <<>> THEN 1 ELSE 0, m, <<>>)
BigInt(neg, mag) == [Number(neg, mag) EXCEPT !.t = "bigint"]

Reverse(s) == [i \in 1..Len(s) |-> s[Len(s) + 1 - i]]

RECURSIVE Negate(_)
\* Two's complement of a big-endian byte string of fixed width.
Negate(s) ==
  IF s = <<>> THEN <<>>
  ELSE LET n == Len(s)
           last == s[n]
           front == SubSeq(s, 1, n - 1)
       IN IF last = 0
            THEN Append(Negate(front), 0)
            ELSE Append([i \in 1..(n - 1) |-> 255 - front[i]], 256 - last)

\* DataViewReader.BAD_I64 = 1n << 64n
BAD_I64 == BigInt(FALSE, <<1, 0, 0, 0, 0, 0, 0, 0, 0>>)
\* -1n, the sentinel of u64
MinusOneN == BigInt(TRUE, <<1>>)

\* ------------------------------------------------------ DataView getters
\* The w bytes at start, most significant first.
BE(b, start, w, le) ==
  LET raw == SubSeq(b, start + 1, start + w)
  IN IF le THEN Reverse(raw) ELSE raw

getUint(b, start, w, le) ==
  IF w = 8 THEN BigInt(FALSE, BE(b, start, w, le))
  ELSE Number(FALSE, BE(b, start, w, le))

getInt(b, start, w, le) ==
  LET be == BE(b, start, w, le)
      neg == be[1] >= 128
      mag == IF neg THEN Negate(be) ELSE be
  IN IF w = 8 THEN BigInt(neg, mag) ELSE Number(neg, mag)

\* A float32/float64 is kept as its bit pattern; every NaN pattern reads as
\* the one JavaScript NaN.
getFloat(b, start, w, le) ==
  LET be == BE(b, start, w, le)
      isNaN ==
        IF w = 4
          THEN /\ be[1] % 128 = 127 /\ be[2] >= 128
               /\ ~(be[2] % 128 = 0 /\ be[3] = 0 /\ be[4] = 0)
          ELSE /\ be[1] % 128 = 127 /\ be[2] \div 16 = 15
               /\ ~(be[2] % 16 = 0 /\ SubSeq(be, 3, 8) = <<0, 0, 0, 0, 0, 0>>)
  IN IF isNaN THEN NaN ELSE Val("float", 8 * w, be, <<>>)

RECURSIVE Dyadic(_, _, _)
\* The float sign * m * 2^e with m odd (or zero): n = 16, s = <<sign, m, e>>.
Dyadic(sign, m, e) ==
  IF m = 0 THEN Val("float", 16, <<sign, 0, 0>>, <<>>)
  ELSE IF m % 2 = 0 THEN Dyadic(sign, m \div 2, e + 1)
  ELSE Val("float", 16, <<sign, m, e>>, <<>>)

parseHalf(b, start, le) ==
  LET first == IF le THEN b[start + 2] ELSE b[start + 1]
      second == IF le THEN b[start + 1] ELSE b[start + 2]
      sign == IF first >= 128 THEN 1 ELSE 0
      exp == (first % 128) \div 4
      mant == (first % 4) * 256 + second
  IN IF exp = 0 THEN Dyadic(sign, mant, -24)
     ELSE IF exp = 31
       THEN (IF mant # 0 THEN NaN ELSE Val("Infinity", sign, <<>>, <<>>))
     ELSE Dyadic(sign, 1024 + mant, exp - 25)

\* ------------------------------------------------------------ TextDecoder
ReplacementChar == 65533

RECURSIVE Utf8Step(_, _, _, _, _, _, _, _)
\* The WHATWG UTF-8 decoder over s from index i.  need/seen/cp/lo/hi are the
\* decoder's state; the result is <<ok, code points>>.
Utf8Step(s, i, need, seen, cp, lo, hi, isFatal) ==
  IF i > Len(s) THEN
    IF need = 0 THEN <<TRUE, <<>>>>
    ELSE IF isFatal THEN <<FALSE, <<>>>>
    ELSE <<TRUE, <<ReplacementChar>>>>
  ELSE
    LET b == s[i]
        emit(c, rest) == <<rest[1], <<c>> \o rest[2]>>
        fresh(j) == Utf8Step(s, j, 0, 0, 0, 128, 191, isFatal)
        bad(j) == IF isFatal THEN <<FALSE, <<>>>>
                  ELSE emit(ReplacementChar, fresh(j))
    IN IF need = 0 THEN
         IF b <= 127 THEN emit(b, fresh(i + 1))
         ELSE IF b >= 194 /\ b <= 223
           THEN Utf8Step(s, i + 1, 1, 0, b % 32, 128, 191, isFatal)
         ELSE IF b >= 224 /\ b <= 239
           THEN Utf8Step(s, i + 1, 2, 0, b % 16,
                         IF b = 224 THEN 160 ELSE 128,
                         IF b = 237 THEN 159 ELSE 191, isFatal)
         ELSE IF b >= 240 /\ b <= 244
           THEN Utf8Step(s, i + 1, 3, 0, b % 8,
                         IF b = 240 THEN 144 ELSE 128,
                         IF b = 244 THEN 143 ELSE 191, isFatal)
         ELSE bad(i + 1)
       ELSE IF b < lo \/ b > hi THEN bad(i)
       ELSE LET c == cp * 64 + (b % 64)
            IN IF seen + 1 = need THEN emit(c, fresh(i + 1))
               ELSE Utf8Step(s, i + 1, need, seen + 1, c, 128, 191, isFatal)

\* TextDecoder('utf8', {ignoreBOM: false, fatal}).decode(s): a leading byte
\* order mark is dropped.
decode(s, isFatal) ==
  LET body == IF Len(s) >= 3 /\ SubSeq(s, 1, 3) = <<239, 187, 191>>
                THEN SubSeq(s, 4, Len(s)) ELSE s
  IN Utf8Step(body, 1, 0, 0, 0, 128, 191, isFatal)

\* ------------------------------------------------------------ DataViewReader
\* Within one call the reader's cursor and flag are threaded through as a
\* record r = [offset, truncated]; a call yields [r, out, val, err] where out
\* is "ok" or the name of the error raised.
Here == [offset |-> offset, truncated |-> truncated]
Res(r, out, val, err) == [r |-> r, out |-> out, val |-> val, err |-> err]
Ok(r, val) == Res(r, "ok", val, <<>>)

checkOffset_open(o, isInt) == o < 0 \/ ~isInt

\* #checkOffset(offset): TRUE when it raises RangeError.  A number that is
\* not an integer is given as the integer below it and isInt = FALSE.
checkOffset(o, isInt) == o > Len(bytes) \/ o < 0 \/ ~isInt

\* #check(add): the cursor moves first, the bound is tested afterwards.
\* ret is "NaN", "throw" or "offset".
check_anew(r, add) ==
  LET start == r.offset
      moved == [r EXCEPT !.offset = start + add]
  IN IF moved.offset > Len(bytes) THEN
       IF allowTruncation
         THEN [r |-> [moved EXCEPT !.truncated = TRUE],
               ret |-> "NaN", err |-> <<>>]
         ELSE [r |-> moved, ret |-> "throw",
               err |-> <<start, moved.offset, Len(bytes)>>]
     ELSE [r |-> moved, ret |-> "offset", err |-> <<>>]

check(r, add) ==
  IF r.truncated THEN [r |-> r, ret |-> "NaN", err |-> <<>>]
  ELSE
    LET start == r.offset
        moved == [r EXCEPT !.offset = start + add]
    IN IF moved.offset > Len(bytes) THEN
         IF allowTruncation
           THEN [r |-> [moved EXCEPT !.truncated = TRUE],
                 ret |-> "NaN", err |-> <<>>]
           ELSE [r |-> moved, ret |-> "throw",
                 err |-> <<start, moved.offset, Len(bytes)>>]
       ELSE [r |-> moved, ret |-> "offset", err |-> <<>>]

\* The common shape of u8 .. f64: const start = offset; if #check(add) is NaN
\* return the sentinel; else the DataView getter reads w bytes at start and
\* raises RangeError when they pass the end of the view.
typed(r, add, sentinel, w, value) ==
  LET c == check(r, add)
  IN IF c.ret = "throw" THEN Res(c.r, "TruncationError", Undefined, c.err)
     ELSE IF c.ret = "NaN" THEN Ok(c.r, sentinel)
     ELSE IF r.offset + w > Len(bytes)
       THEN Res(c.r, "RangeError", Undefined, <<>>)
     ELSE Ok(c.r, value)

Kinds == {"u8", "u16", "u32", "u64", "i8", "i16", "i32", "i64",
          "f16", "f32", "f64"}

\* u8() .. f64(); u64 and i64 have sentinels of their own, and f64 passes 4
\* to #check and then reads 8 bytes.
ReadOf(kind, r) ==
  LET at == r.offset
  IN CASE kind = "u8" -> typed(r, 1, NaN, 1, getUint(bytes, at, 1, little))
       [] kind = "u16" -> typed(r, 2, NaN, 2, getUint(bytes, at, 2, little))
       [] kind = "u32" -> typed(r, 4, NaN, 4, getUint(bytes, at, 4, little))
       [] kind = "u64" ->
            typed(r, 8, MinusOneN, 8, getUint(bytes, at, 8, little))
       [] kind = "i8" -> typed(r, 1, NaN, 1, getInt(bytes, at, 1, little))
       [] kind = "i16" -> typed(r, 2, NaN, 2, getInt(bytes, at, 2, little))
       [] kind = "i32" -> typed(r, 4, NaN, 4, getInt(bytes, at, 4, little))
       [] kind = "i64" -> typed(r, 8, BAD_I64, 8, getInt(bytes, at, 8, little))
       [] kind = "f16" -> typed(r, 2, NaN, 2, parseHalf(bytes, at, little))
       [] kind = "f32" -> typed(r, 4, NaN, 4, getFloat(bytes, at, 4, little))
       [] OTHER -> typed(r, 4, NaN, 8, getFloat(bytes, at, 8, little))

\* Uint8Array.subarray(begin, end) with end possibly NaN (which counts as 0).
subarray(b, begin, end) ==
  LET lo == IF begin > Len(b) THEN Len(b) ELSE begin
      hi == IF end > Len(b) THEN Len(b) ELSE end
  IN SubSeq(b, lo + 1, hi)

\* bytes(length): subarray(offset, #check(length)).
Reader_bytes(r, length) ==
  LET c == check(r, length)
  IN IF c.ret = "throw" THEN Res(c.r, "TruncationError", Undefined, c.err)
     ELSE IF c.ret = "NaN" THEN Ok(c.r, Bytes(subarray(bytes, r.offset, 0)))
     ELSE Ok(c.r, Bytes(subarray(bytes, r.offset, c.r.offset)))

\* ascii(length): String.fromCharCode(...bytes(length)).
Reader_ascii(r, length) ==
  LET b == Reader_bytes(r, length)
  IN IF b.out # "ok" THEN b ELSE Ok(b.r, Str(b.val.s))

\* utf8(length): #td.decode(bytes(length)); the fatal decoder raises TypeError.
Reader_utf8(r, length) ==
  LET b == Reader_bytes(r, length)
      d == decode(b.val.s, fatal)
  IN IF b.out # "ok" THEN b
     ELSE IF d[1] THEN Ok(b.r, Str(d[2]))
     ELSE Res(b.r, "TypeError", Undefined, <<>>)

Reader_complete_strict(r) ==
  IF r.offset # Len(bytes)
    THEN Res(r, "ExtraBytesError", Undefined, <<r.offset, Len(bytes)>>)
    ELSE Ok(r, Undefined)

\* complete(): raises ExtraBytesError(offset, len) or returns.
Reader_complete(r) ==
  IF ~r.truncated /\ r.offset # Len(bytes)
    THEN Res(r, "ExtraBytesError", Undefined, <<r.offset, Len(bytes)>>)
    ELSE Ok(r, Undefined)

\* The read callbacks handed to times and while: "u8", "u16" and "bytes2".
Call(fn, r) ==
  CASE fn = "u8" -> ReadOf("u8", r)
    [] fn = "u16" -> ReadOf("u16", r)
    [] OTHER -> Reader_bytes(r, 2)

RECURSIVE timesLoop(_, _, _, _, _)
\* for (i = 0; !truncated && i < num; i++) res[i] = fn(i)
timesLoop(r, i, num, fn, res) ==
  IF ~r.truncated /\ i < num
    THEN LET c == Call(fn, r)
         IN IF c.out # "ok" THEN c
            ELSE timesLoop(c.r, i + 1, num, fn, Append(res, c.val))
    ELSE Ok(r, Arr(res))


\* ------------------------------------------------------- reader: the calls
\* The input buffers: prefixes of a few repeating byte patterns.
Patterns ==
  << <<255>>,
     <<1, 2, 3, 4, 3, 97, 98, 99, 100>>,
     <<195, 169, 226, 130, 172, 240, 159, 152, 128>> >>
Buffer(p, n) == [i \in 1..n |-> Patterns[p][((i - 1) % Len(Patterns[p])) + 1]]

\* What ret records of a call: its name, its argument, the cursor and the
\* flag before it, and its outcome.
Ret(op, arg, fn, res) ==
  [op |-> op, arg |-> arg, fn |-> fn, start |-> offset, was |-> truncated,
   out |-> res.out, val |-> res.val, err |-> res.err]

\* A reader call with outcome res.
ReaderStep(op, arg, fn, res) ==
  /\ offset' = res.r.offset
  /\ truncated' = res.r.truncated
  /\ ret' = Ret(op, arg, fn, res)
  /\ UNCHANGED <<bytes, allowTruncation, little, fatal>>
  /\ UNCHANGED <<writerVars, packetVars, sinkVars, stream>>

Capped(add) == offset + add <= MaxOffset

Read ==
  \E kind \in Kinds :
    /\ Capped(8)
    /\ ReaderStep(kind, 0, "", ReadOf(kind, Here))

ReadBytes ==
  \E n \in 0..MaxArg :
    /\ Capped(n)
    /\ ReaderStep("bytes", n, "", Reader_bytes(Here, n))

ReadAscii ==
  \E n \in 0..MaxArg :
    /\ Capped(n)
    /\ ReaderStep("ascii", n, "", Reader_ascii(Here, n))

ReadUtf8 ==
  \E n \in 0..MaxArg :
    /\ Capped(n)
    /\ ReaderStep("utf8", n, "", Reader_utf8(Here, n))

Skip ==
  \E n \in 0..MaxArg :
    /\ Capped(n)
    /\ LET c == check(Here, n)
       IN ReaderStep("skip", n, "",
                     IF c.ret = "throw"
                       THEN Res(c.r, "TruncationError", Undefined, c.err)
                     ELSE Ok(c.r, Undefined))

\* unused(): subarray(offset).
Unused ==
  ReaderStep("unused", 0, "",
             Ok(Here, Bytes(subarray(bytes, offset, Len(bytes)))))

Complete == ReaderStep("complete", 0, "", Reader_complete(Here))

Times ==
  \E num \in 0..MaxTimes, fn \in {"u8", "u16", "bytes2"} :
    /\ Capped(2 * num)
    /\ ReaderStep("times", num, fn, timesLoop(Here, 0, num, fn, <<>>))

\* seek(offset); a seek to o + 1/2 is recorded with fn = "half".
Seek ==
  \E o \in -1..(MaxLen + 1), isInt \in BOOLEAN :
    LET res == IF allowTruncation THEN Res(Here, "Error", Undefined, <<>>)
               ELSE IF checkOffset(o, isInt)
                 THEN Res(Here, "RangeError", Undefined, <<>>)
               ELSE Ok([Here EXCEPT !.offset = o], Undefined)
    IN /\ ~isInt => o \in -1..1
       /\ ReaderStep("seek", o, IF isInt THEN "" ELSE "half", res)

\* reset()
Reset ==
  ReaderStep("reset", 0, "",
             Ok([offset |-> 0, truncated |-> FALSE], Undefined))

Reader_setTruncated_any(r, v) == Ok([r EXCEPT !.truncated = v], Undefined)

\* set truncated(val): false is refused.
Reader_setTruncated(r, v) ==
  IF ~v THEN Res(r, "Error", Undefined, <<>>)
  ELSE Ok([r EXCEPT !.truncated = TRUE], Undefined)

SetTruncated ==
  \E v \in BOOLEAN :
    ReaderStep("set truncated", IF v THEN 1 ELSE 0, "",
               Reader_setTruncated(Here, v))

SetAllowTruncation_assign ==
  \E v \in BOOLEAN :
    /\ allowTruncation' = v
    /\ ret' = Ret("set allowTruncation", IF v THEN 1 ELSE 0, "",
                  Ok(Here, Undefined))
    /\ UNCHANGED <<bytes, offset, truncated, little, fatal>>
    /\ UNCHANGED <<writerVars, packetVars, sinkVars, stream>>

\* set allowTruncation(val)
SetAllowTruncation ==
  \E v \in BOOLEAN :
    /\ allowTruncation' = (IF v THEN TRUE ELSE allowTruncation)
    /\ ret' = Ret("set allowTruncation", IF v THEN 1 ELSE 0, "",
                  IF v THEN Ok(Here, Undefined)
                  ELSE Res(Here, "Error", Undefined, <<>>))
    /\ UNCHANGED <<bytes, offset, truncated, little, fatal>>
    /\ UNCHANGED <<writerVars, packetVars, sinkVars, stream>>

\* A record without fields.
Empty == [x \in {} |-> Undefined]

\* A Packet that is not in use.
NoPacket ==
  /\ packet = Empty
  /\ temp = Empty
  /\ ncalls = 0

\* A sink that is not in use.
NoSink ==
  /\ queue = <<>>
  /\ qlen = 0
  /\ qoffset = 0
  /\ closed = FALSE
  /\ waiting = [size |-> 0, id |-> 0]
  /\ promises = <<>>

\* A DataViewReadableStream that is not in use.
NoStream ==
  stream = [chunkSize |-> 8, littleEndian |-> FALSE, chunk |-> <<>>,
            offset |-> 0, enqueued |-> <<>>, closed |-> FALSE,
            written |-> <<>>, n |-> 0]

\* A writer that is not in use.
NoWriter ==
  /\ opts = [chunkSize |-> 8, copyBuffers |-> FALSE, littleEndian |-> FALSE]
  /\ chunks = <<>>
  /\ dv = 0
  /\ woffset = 0
  /\ wlength = 0
  /\ written = <<>>
  /\ nwrites = 0

\* new DataViewReader(bytes, opts) with a start offset that #checkOffset
\* accepts.
InitReader ==
  /\ NoSink
  /\ NoWriter
  /\ NoPacket
  /\ NoStream
  /\ \E p \in 1..Len(Patterns), n \in 0..MaxLen : bytes = Buffer(p, n)
  /\ offset \in {o \in -1..(MaxLen + 1) : ~checkOffset(o, TRUE)}
  /\ truncated = FALSE
  /\ allowTruncation \in BOOLEAN
  /\ little \in BOOLEAN
  /\ fatal \in BOOLEAN
  /\ ret = [op |-> "new", arg |-> 0, fn |-> "", start |-> offset, was |-> FALSE,
            out |-> "ok", val |-> Undefined, err |-> <<>>]

NextReader ==
  \/ Read \/ ReadBytes \/ ReadAscii \/ ReadUtf8 \/ Skip \/ Unused
  \/ Complete \/ Times \/ Seek \/ Reset \/ SetTruncated
  \/ SetAllowTruncation

SpecReader == InitReader /\ [][NextReader]_vars

\* ------------------------------------------------------ reader: properties
ReadOps == Kinds \cup {"bytes", "ascii", "utf8", "skip"}

\* The number of bytes a read consumes according to its documentation.
Width(op, arg) ==
  CASE op \in {"u8", "i8"} -> 1
    [] op \in {"u16", "i16", "f16"} -> 2
    [] op \in {"u32", "i32", "f32"} -> 4
    [] op \in {"u64", "i64", "f64"} -> 8
    [] OTHER -> arg

\* The value a read returns in place of data.
Sentinel(op) ==
  CASE op = "u64" -> MinusOneN
    [] op = "i64" -> BAD_I64
    [] op = "bytes" -> Bytes(<<>>)
    [] op \in {"ascii", "utf8"} -> Str(<<>>)
    [] op = "skip" -> Undefined
    [] OTHER -> NaN

\* C21: seek fails on every reader that allows truncation; on a strict
\* reader it fails exactly when the offset is negative, not an integer or
\* beyond the length; a failed seek leaves the cursor where it was, a
\* successful one puts it at the offset; and a reader is constructed only
\* with a start offset within 0..length.
C21_Seek ==
  [][/\ ret'.op = "seek"
          => LET bad == \/ allowTruncation
                        \/ ret'.arg < 0
                        \/ ret'.fn = "half"
                        \/ ret'.arg > Len(bytes)
             IN IF bad THEN /\ ret'.out \in {"Error", "RangeError"}
                            /\ offset' = offset
                            /\ truncated' = truncated
                ELSE ret'.out = "ok" /\ offset' = ret'.arg
     /\ ret.op = "new" => (0 <= offset /\ offset <= Len(bytes))]_vars

\* C21 witness: a strict reader refused a seek to one past its length and
\* kept its cursor, which was not at 0.
C21_Witness ==
  /\ ret.op = "seek" /\ ret.out = "RangeError" /\ ret.fn = ""
  /\ ret.arg = Len(bytes) + 1
  /\ ~allowTruncation /\ offset = ret.start /\ offset > 0

\* C25: allowTruncation can only go from false to true: assigning false
\* raises and changes nothing, assigning true turns it on, and no operation,
\* reset() included, ever turns it back off.
C25_EnableOnly ==
  [][/\ allowTruncation => allowTruncation'
     /\ ret'.op = "set allowTruncation"
          => IF ret'.arg = 0
               THEN /\ ret'.out = "Error"
                    /\ allowTruncation' = allowTruncation
                    /\ offset' = offset
                    /\ truncated' = truncated
                    /\ bytes' = bytes
               ELSE /\ ret'.out = "ok"
                    /\ allowTruncation']_vars

\* false was assigned to allowTruncation on a reader that has it on and has
\* moved its cursor.
C25_Witness ==
  /\ ret.op = "set allowTruncation"
  /\ ret.arg = 0
  /\ ret.out = "Error"
  /\ allowTruncation
  /\ offset > 0

\* C31: truncated is true only on a reader for which truncation is allowed:
\* in every reachable state truncated implies allowTruncation, including
\* after the truncated setter has been used on a strict reader.
C31_TruncatedImpliesAllowed == truncated => allowTruncation

\* C2: every read that succeeds advances the cursor by exactly its byte
\* width (f64 by 8), and only seek and reset ever move the cursor backward.
C2_CursorAdvance ==
  [][/\ (ret'.op \in ReadOps /\ ret'.out = "ok" /\ ~truncated')
          => offset' = offset + Width(ret'.op, ret'.arg)
     /\ offset' < offset => ret'.op \in {"seek", "reset"}]_vars

\* C3: on a tolerant reader a read or skip that would pass the end of the
\* buffer does not raise; it sets truncated and returns the sentinel.
C3_TolerantNeverRaises ==
  (/\ allowTruncation /\ ret.op \in ReadOps /\ ~ret.was
   /\ ret.start + Width(ret.op, ret.arg) > Len(bytes))
  => (ret.out = "ok" /\ truncated /\ ret.val = Sentinel(ret.op))

\* C4: on a strict reader a read of n bytes at offset s with s + n > length
\* raises TruncationError with start = s, requested = n, size = length.
C4_TruncationErrorFields ==
  (/\ ~allowTruncation /\ ret.op \in ReadOps /\ ~ret.was
   /\ ret.start + Width(ret.op, ret.arg) > Len(bytes))
  => (/\ ret.out = "TruncationError"
      /\ ret.err = <<ret.start, Width(ret.op, ret.arg), Len(bytes)>>)

\* C5: once truncated is true only reset() makes it false again, and
\* assigning truncated = false raises and leaves the flag as it was.
C5_TruncatedSticky ==
  [][/\ (truncated /\ ret'.op # "reset") => truncated'
     /\ (ret'.op = "set truncated" /\ ret'.arg = 0)
          => (ret'.out = "Error" /\ truncated' = truncated)]_vars

\* C5 witness: truncated = false was assigned on a truncated reader, which
\* raised and left the flag set.
C5_Witness ==
  /\ ret.op = "set truncated" /\ ret.arg = 0 /\ ret.was
  /\ ret.out = "Error" /\ truncated

\* C6: while truncated is true every read returns its sentinel, however
\* many bytes remain unread.
C6_SentinelWhileTruncated ==
  (ret.was /\ ret.op \in ReadOps)
  => (ret.out = "ok" /\ ret.val = Sentinel(ret.op) /\ truncated)

\* C6 witness: u64 on a truncated reader with 8 unread bytes returned -1n.
C6_Witness ==
  /\ ret.was /\ ret.op = "u64" /\ ret.start + 8 <= Len(bytes)
  /\ ret.val = MinusOneN

\* C7: the cursor always lies between 0 and the length of the buffer.
C7_OffsetInBounds == 0 <= offset /\ offset <= Len(bytes)

C9_TimesResults ==
  (ret.op = "times" /\ ret.out = "ok" /\ ~ret.was
   /\ ret.start <= Len(bytes))
  => LET w == IF ret.fn = "u8" THEN 1 ELSE 2
         fit == (Len(bytes) - ret.start) \div w
         k == IF fit < ret.arg THEN fit ELSE ret.arg
         item(i) ==
           Call(ret.fn, [offset |-> ret.start + (i - 1) * w,
                         truncated |-> FALSE]).val
     IN ret.val = Arr([i \in 1..k |-> item(i)])

\* ------------------------------------------------------------ DataViewWriter
\* A chunk is a Uint8Array: data are the bytes it shows, ref tells that it is
\* the caller's own buffer, adopted without copying.  dv is 0 for null, k
\* for a view over the buffer of chunks[k], and -1 for a view over a buffer
\* that is no longer in the chunk list.  Within one call the writer's fields
\* are threaded through as a record w = [chunks, dv, offset, length].
Now == [chunks |-> chunks, dv |-> dv, offset |-> woffset, length |-> wlength]
Zeros(n) == [i \in 1..n |-> 0]
Last(w) == Len(w.chunks)

alloc_stale(w) ==
  [w EXCEPT !.chunks = Append(@, [data |-> Zeros(opts.chunkSize),
                                  ref |-> FALSE]),
            !.offset = 0]

\* #alloc()
alloc(w) ==
  [w EXCEPT !.chunks = Append(@, [data |-> Zeros(opts.chunkSize),
                                  ref |-> FALSE]),
            !.offset = 0,
            !.dv = Len(w.chunks) + 1]

\* #trim()
trim(w) ==
  LET lastChunk == w.chunks[Last(w)]
  IN IF Len(lastChunk.data) # w.offset
       THEN [w EXCEPT !.chunks[Last(w)].data = subarray(lastChunk.data, 0,
                                                         w.offset),
                      !.dv = 0]
       ELSE w

\* #left()
left(w) == Len(w.chunks[Last(w)].data) - w.offset

makeSpace_untrimmed(w, sz) == IF left(w) < sz THEN alloc(w) ELSE w

\* #makeSpace(sz); the view it returns is the dv of the result.
makeSpace(w, sz) == IF left(w) < sz THEN alloc(trim(w)) ELSE w

\* #advance(sz)
advance(w, sz) ==
  [w EXCEPT !.offset = @ + sz, !.length = @ + sz]

\* Uint8Array.set(src, at) on the data of a chunk.
setBytes(data, src, at) ==
  [i \in 1..Len(data) |->
     IF i > at /\ i <= at + Len(src) THEN src[i - at] ELSE data[i]]

pop_keep(w) == w

\* Chunks.pop(): a view over the popped chunk's buffer stays behind.
pop(w) ==
  [w EXCEPT !.chunks = SubSeq(@, 1, Len(@) - 1),
            !.dv = IF w.dv = Len(w.chunks) THEN -1 ELSE w.dv]

\* write(buf, copy)
write_untrimmed(w, buf, copy) ==
  LET len == Len(buf)
  IN IF len > left(w) THEN
       LET t == IF w.offset = 0 THEN pop(w) ELSE w
       IN IF len > opts.chunkSize - 8
            THEN [t EXCEPT !.chunks = Append(@, [data |-> buf,
                                                 ref |-> ~copy]),
                           !.offset = len,
                           !.dv = 0,
                           !.length = @ + len]
            ELSE LET a == alloc(t)
                 IN [a EXCEPT !.chunks[Last(a)].data = setBytes(@, buf, 0),
                              !.offset = len,
                              !.length = @ + len]
     ELSE [w EXCEPT !.chunks[Last(w)].data = setBytes(@, buf, w.offset),
                    !.offset = @ + len,
                    !.length = @ + len]

write(w, buf, copy) ==
  LET len == Len(buf)
  IN IF len > left(w) THEN
       LET t == IF w.offset = 0 THEN pop(w) ELSE trim(w)
       IN IF len > opts.chunkSize - 8
            THEN [t EXCEPT !.chunks = Append(@, [data |-> buf,
                                                 ref |-> ~copy]),
                           !.offset = len,
                           !.dv = 0,
                           !.length = @ + len]
            ELSE LET a == alloc(t)
                 IN [a EXCEPT !.chunks[Last(a)].data = setBytes(@, buf, 0),
                              !.offset = len,
                              !.length = @ + len]
     ELSE [w EXCEPT !.chunks[Last(w)].data = setBytes(@, buf, w.offset),
                    !.offset = @ + len,
                    !.length = @ + len]

\* A typed write of the sz bytes enc: #makeSpace(sz) hands back the view,
\* its setter stores enc at #offset, then #advance(sz).  Calling the setter
\* of a null view raises TypeError, and a setter that would pass the end of
\* its view raises RangeError, both after #makeSpace has run.
store(w, enc) ==
  LET sz == Len(enc)
      m == makeSpace(w, sz)
  IN IF m.dv = 0 THEN [w |-> m, out |-> "TypeError", enc |-> enc]
     ELSE IF m.offset + sz > opts.chunkSize
       THEN [w |-> m, out |-> "RangeError", enc |-> enc]
     ELSE IF m.dv = -1 THEN [w |-> advance(m, sz), out |-> "ok", enc |-> enc]
     ELSE [w |-> advance([m EXCEPT !.chunks[m.dv].data =
                                      setBytes(@, enc, m.offset)], sz),
           out |-> "ok", enc |-> enc]

RECURSIVE Concat(_)
Concat(cs) ==
  IF cs = <<>> THEN <<>> ELSE Head(cs).data \o Concat(Tail(cs))

coalesce_open(t, buf, len) ==
  [t EXCEPT !.chunks = <<[data |-> buf, ref |-> FALSE]>>,
            !.dv = IF t.dv = 0 THEN 0 ELSE -1]

\* #read: this.#chunks = [ret]; this.#offset = len.  #dv is left as it is:
\* a view over a buffer that is no longer in the chunk list.
coalesce(t, buf, len) ==
  [t EXCEPT !.chunks = <<[data |-> buf, ref |-> FALSE]>>,
            !.offset = len,
            !.dv = IF t.dv = 0 THEN 0 ELSE -1]

read_stale(w, clear) ==
  LET t == trim(w)
      count == Len(t.chunks)
      all == Concat(t.chunks)
  IN IF count = 1 THEN [w |-> t, out |-> "ok", val |-> t.chunks[1].data]
     ELSE IF Len(all) > t.length
       THEN [w |-> t, out |-> "RangeError", val |-> <<>>]
     ELSE LET buf == all \o Zeros(t.length - Len(all))
          IN [w |-> IF clear THEN t
                    ELSE [t EXCEPT !.chunks = <<[data |-> buf, ref |-> FALSE]>>,
                                   !.dv = IF t.dv = 0 THEN 0 ELSE -1],
              out |-> "ok", val |-> buf]

\* #read(clear): the bytes returned (or the error raised) and the writer
\* left behind.
read(w, clear) ==
  LET t == trim(w)
      count == Len(t.chunks)
      all == Concat(t.chunks)
  IN IF count = 1 THEN [w |-> t, out |-> "ok", val |-> t.chunks[1].data]
     ELSE IF Len(all) > t.length
       THEN [w |-> t, out |-> "RangeError", val |-> <<>>]
     ELSE LET buf == all \o Zeros(t.length - Len(all))
          IN [w |-> IF clear THEN t ELSE coalesce(t, buf, Len(all)),
              out |-> "ok", val |-> buf]

clear_chunks(w) == alloc([w EXCEPT !.chunks = <<>>])

\* clear()
clear(w) == alloc([w EXCEPT !.length = 0, !.chunks = <<>>])

\* ------------------------------------------------- writer: number encoding
RECURSIVE MagCmp(_, _)
\* Compares two magnitudes of equal length: -1, 0 or 1.
MagCmp(a, b) ==
  IF a = <<>> THEN 0
  ELSE IF Head(a) < Head(b) THEN -1
  ELSE IF Head(a) > Head(b) THEN 1
  ELSE MagCmp(Tail(a), Tail(b))

\* a <= b for magnitudes without leading zeros.
MagLE(a, b) ==
  \/ Len(a) < Len(b)
  \/ Len(a) = Len(b) /\ MagCmp(a, b) <= 0

\* x <= y for integers.
IntLE(x, y) ==
  IF x.n = 1 THEN (y.n = 0 \/ MagLE(y.s, x.s))
  ELSE (y.n = 0 /\ MagLE(x.s, y.s))

\* intRange(n, start, end): TRUE when it raises RangeError.
\* Number.isSafeInteger(n) holds of an integral number of magnitude below
\* 2^53.
intRange(n, start, end) ==
  \/ /\ n.t # "bigint"
     /\ ~(n.t = "number" /\ MagLE(n.s, <<31, 255, 255, 255, 255, 255, 255>>))
  \/ ~IntLE(start, n)
  \/ ~IntLE(n, end)

\* DataView.setUint8 .. setBigInt64: the w bytes of n in two's complement.
setInt(n, w, le) ==
  LET padded == Zeros(w - Len(n.s)) \o n.s
      be == IF n.n = 1 THEN Negate(padded) ELSE padded
  IN IF le THEN Reverse(be) ELSE be

\* A JavaScript number that is not an integer is a float64 bit pattern.
F64Bits(n) == IF n.t = "NaN" THEN <<127, 248, 0, 0, 0, 0, 0, 0>> ELSE n.s


RECURSIVE Pow2(_)
Pow2(k) == IF k = 0 THEN 1 ELSE 2 * Pow2(k - 1)

\* Math.fround(n) as the sign, exponent and mantissa fields of the float32,
\* with exact telling whether Object.is(Math.fround(n), n).  The 52 mantissa
\* bits of the float64 are split into the upper 23 and the lower 29.
fround(n) ==
  LET be == F64Bits(n)
      sign == be[1] \div 128
      exp64 == (be[1] % 128) * 16 + (be[2] \div 16)
      e == exp64 - 1023
      hi == (be[2] % 16) * 524288 + be[3] * 2048 + be[4] * 8 + (be[5] \div 32)
      lo == (be[5] % 32) * 16777216 + be[6] * 65536 + be[7] * 256 + be[8]
      full == 8388608 + hi
      f(exact, exp, mant) ==
        [exact |-> exact, sign |-> sign, exp |-> exp, mant |-> mant]
  IN IF n.t = "NaN" THEN f(TRUE, 255, 4194304)
     ELSE IF exp64 = 2047 THEN f(TRUE, 255, 0)
     ELSE IF exp64 = 0 THEN f(hi = 0 /\ lo = 0, 0, 0)
     ELSE IF e > 127 THEN f(FALSE, 255, 0)
     ELSE IF e >= -126 THEN f(lo = 0, e + 127, hi)
     ELSE IF e >= -149
       THEN f(lo = 0 /\ full % Pow2(-126 - e) = 0, 0,
              full \div Pow2(-126 - e))
     ELSE f(FALSE, 0, 0)

\* DataView.setFloat32: the four bytes of the float32 fields.
setFloat32(f, le) ==
  LET be == <<f.sign * 128 + (f.exp \div 2),
              (f.exp % 2) * 128 + (f.mant \div 65536),
              (f.mant \div 256) % 256,
              f.mant % 256>>
  IN IF le THEN Reverse(be) ELSE be

halfToUint_hidden(half) ==
  LET f == fround(half)
      s16 == f.sign * 32768
      exp == f.exp
      mant == f.mant
  IN IF ~f.exact THEN -1
     ELSE IF mant % 8192 # 0 THEN -1
     ELSE IF exp = 0 /\ mant = 0 THEN s16
     ELSE IF exp >= 113 /\ exp <= 142
       THEN s16 + (exp - 112) * 1024 + (mant \div 8192)
     ELSE IF exp >= 103 /\ exp < 113
       THEN IF mant % Pow2(126 - exp) # 0 THEN -1
            ELSE s16 + (mant \div Pow2(126 - exp))
     ELSE IF exp = 255 THEN s16 + 31744 + (mant \div 8192)
     ELSE -1

\* halfToUint(half): the float16 bit pattern, or -1 for null.
halfToUint(half) ==
  LET f == fround(half)
      s16 == f.sign * 32768
      exp == f.exp
      mant == f.mant
  IN IF ~f.exact THEN -1
     ELSE IF mant % 8192 # 0 THEN -1
     ELSE IF exp = 0 /\ mant = 0 THEN s16
     ELSE IF exp >= 113 /\ exp <= 142
       THEN s16 + (exp - 112) * 1024 + (mant \div 8192)
     ELSE IF exp >= 103 /\ exp < 113
       THEN IF mant % Pow2(126 - exp) # 0 THEN -1
            ELSE s16 + ((mant + 8388608) \div Pow2(126 - exp))
     ELSE IF exp = 255 THEN s16 + 31744 + (mant \div 8192)
     ELSE -1

setUint16(u, le) ==
  IF le THEN <<u % 256, u \div 256>> ELSE <<u \div 256, u % 256>>

\* TextEncoder.encode(s) for a string given as its code points; a lone
\* surrogate is encoded as U+FFFD.
RECURSIVE encodeUtf8(_)
encodeUtf8(s) ==
  IF s = <<>> THEN <<>>
  ELSE LET c0 == Head(s)
           c == IF c0 >= 55296 /\ c0 <= 57343 THEN ReplacementChar ELSE c0
           one ==
             IF c < 128 THEN <<c>>
             ELSE IF c < 2048 THEN <<192 + (c \div 64), 128 + (c % 64)>>
             ELSE IF c < 65536
               THEN <<224 + (c \div 4096), 128 + ((c \div 64) % 64),
                      128 + (c % 64)>>
             ELSE <<240 + (c \div 262144), 128 + ((c \div 4096) % 64),
                    128 + ((c \div 64) % 64), 128 + (c % 64)>>
       IN one \o encodeUtf8(Tail(s))

\* -------------------------------------------------------- writer: the calls
Rejected_late(w) ==
  [w |-> makeSpace(w, 8), out |-> "RangeError", enc |-> <<>>]

\* A call refused before it touches the writer.
Rejected(w) == [w |-> w, out |-> "RangeError", enc |-> <<>>]
Written(w, buf, copy) == [w |-> write(w, buf, copy), out |-> "ok", enc |-> buf]

\* u8(n) .. f64(n): the integer writers pass their bounds to intRange, f16
\* and f32 refuse a number the narrower float cannot hold.
WriteOf(kind, w, n) ==
  LET le == opts.littleEndian
      maxU(k) == [i \in 1..k |-> 255]
      maxI(k) == [i \in 1..k |-> IF i = 1 THEN 127 ELSE 255]
      minI(k) == [i \in 1..k |-> IF i = 1 THEN 128 ELSE 0]
      int(lo, hi, k) ==
        IF intRange(n, lo, hi) THEN Rejected(w) ELSE store(w, setInt(n, k, le))
      unsigned(k) == int(Number(FALSE, <<>>), Number(FALSE, maxU(k)), k)
      signed(k) == int(Number(TRUE, minI(k)), Number(FALSE, maxI(k)), k)
  IN CASE kind = "u8" -> unsigned(1)
       [] kind = "u16" -> unsigned(2)
       [] kind = "u32" -> unsigned(4)
       [] kind = "u64" -> int(BigInt(FALSE, <<>>), BigInt(FALSE, maxU(8)), 8)
       [] kind = "i8" -> signed(1)
       [] kind = "i16" -> signed(2)
       [] kind = "i32" -> signed(4)
       [] kind = "i64" -> int(BigInt(TRUE, minI(8)), BigInt(FALSE, maxI(8)), 8)
       [] kind = "f16" ->
            \* isF16(n): halfToUint(n) is not -1
            IF halfToUint(n) = -1 THEN Rejected(w)
            ELSE store(w, setUint16(halfToUint(n), le))
       [] kind = "f32" ->
            IF ~fround(n).exact THEN Rejected(w)
            ELSE store(w, setFloat32(fround(n), le))
       [] OTHER -> store(w, IF le THEN Reverse(F64Bits(n)) ELSE F64Bits(n))

\* The arguments the typed writers are called with: for each, one it accepts
\* (the value whose encoding ends in a single 1 bit, or -1) and some it must
\* refuse.  A number that is not an integer is given as its float64 pattern.
TypedInputs(kind) ==
  LET I(neg, mag) == Number(neg, mag)
      B(neg, mag) == BigInt(neg, mag)
      F(be) == Val("float", 64, be, <<>>)
      f1_1 == F(<<63, 241, 153, 153, 153, 153, 153, 154>>)
      f65536 == F(<<64, 240, 0, 0, 0, 0, 0, 0>>)
      \* 2^-24, the smallest float16; 2^-149, the smallest float32; 2^-1074.
      fMin16 == F(<<62, 112, 0, 0, 0, 0, 0, 0>>)
      fMin32 == F(<<54, 160, 0, 0, 0, 0, 0, 0>>)
      fMin64 == F(<<0, 0, 0, 0, 0, 0, 0, 1>>)
  IN CASE kind = "u8" -> {I(FALSE, <<1>>), I(FALSE, <<1, 0>>)}
       [] kind = "u16" -> {I(FALSE, <<1>>), I(TRUE, <<1>>)}
       [] kind = "u32" -> {I(FALSE, <<1>>), f1_1}
       [] kind = "u64" ->
            {B(FALSE, <<1>>), B(FALSE, <<1, 0, 0, 0, 0, 0, 0, 0, 0>>)}
       [] kind = "i8" -> {I(TRUE, <<1>>), I(TRUE, <<129>>)}
       [] kind = "i16" -> {I(FALSE, <<1>>), I(TRUE, <<128, 1>>)}
       [] kind = "i32" -> {I(FALSE, <<1>>), I(FALSE, <<128, 0, 0, 0>>)}
       [] kind = "i64" -> {I(FALSE, <<1>>), I(FALSE, <<32, 0, 0, 0, 0, 0, 0>>)}
       [] kind = "f16" -> {fMin16, f1_1, f65536}
       [] kind = "f32" -> {fMin32, f1_1}
       [] OTHER -> {fMin64}

\* write(buf) is handed the next bytes of a counting stream.
Stream(from, n) == [i \in 1..n |-> (from + i) % 256]

WRet(op, out, val) == [op |-> op, out |-> out, val |-> val]

\* A writing call with outcome res = [w, out, enc].
WriterStep(op, res) ==
  /\ nwrites < MaxWrites
  /\ chunks' = res.w.chunks
  /\ dv' = res.w.dv
  /\ woffset' = res.w.offset
  /\ wlength' = res.w.length
  /\ written' = IF res.out = "ok" THEN written \o res.enc ELSE written
  /\ nwrites' = IF res.out = "ok" THEN nwrites + 1 ELSE nwrites
  /\ ret' = WRet(op, res.out, Undefined)
  /\ UNCHANGED <<opts, readerVars, packetVars, sinkVars, stream>>

Write ==
  \E n \in {0, 1, 2, 9} :
    WriterStep("write", Written(Now, Stream(wlength, n), opts.copyBuffers))

TypedWrite ==
  \E kind \in Kinds : \E n \in TypedInputs(kind) :
    WriterStep("typed", WriteOf(kind, Now, n))

\* utf8(s): write(TE.encode(s), false)
Utf8 ==
  \E s \in {<<233>>, <<97, 98, 99, 100, 101, 102, 103, 104, 105>>} :
    WriterStep("utf8", Written(Now, encodeUtf8(s), FALSE))

\* ascii(s): a code unit above 0xff raises RangeError.
Ascii ==
  \E s \in {<<97, 98, 99>>, <<101, 776>>} :
    WriterStep("ascii", IF \E i \in 1..Len(s) : s[i] > 255 THEN Rejected(Now)
                        ELSE Written(Now, s, FALSE))

\* peek(): #read(false)
Peek ==
  LET res == read(Now, FALSE)
  IN /\ chunks' = res.w.chunks
     /\ dv' = res.w.dv
     /\ woffset' = res.w.offset
     /\ wlength' = res.w.length
     /\ ret' = WRet("peek", res.out, Bytes(res.val))
     /\ UNCHANGED <<opts, written, nwrites, readerVars, packetVars, sinkVars, stream>>

\* read(): #read(true), then clear()
ReadAll ==
  LET res == read(Now, TRUE)
      after == IF res.out = "ok" THEN clear(res.w) ELSE res.w
  IN /\ chunks' = after.chunks
     /\ dv' = after.dv
     /\ woffset' = after.offset
     /\ wlength' = after.length
     /\ written' = IF res.out = "ok" THEN <<>> ELSE written
     /\ nwrites' = IF res.out = "ok" THEN 0 ELSE nwrites
     /\ ret' = WRet("read", res.out, Bytes(res.val))
     /\ UNCHANGED <<opts, readerVars, packetVars, sinkVars, stream>>

\* clear()
Clear ==
  LET after == clear(Now)
  IN /\ chunks' = after.chunks
     /\ dv' = after.dv
     /\ woffset' = after.offset
     /\ wlength' = after.length
     /\ written' = <<>>
     /\ nwrites' = 0
     /\ ret' = WRet("clear", "ok", Undefined)
     /\ UNCHANGED <<opts, readerVars, packetVars, sinkVars, stream>>

\* A reader that is not in use.
NoReader ==
  /\ bytes = <<>>
  /\ offset = 0
  /\ truncated = FALSE
  /\ allowTruncation = FALSE
  /\ little = FALSE
  /\ fatal = TRUE

\* new DataViewWriter(opts): the chunk size passed intRange(chunkSize, 8,
\* MAX_SAFE_INTEGER) and #alloc() made the first chunk.
InitWriter ==
  /\ NoSink
  /\ NoReader
  /\ NoPacket
  /\ NoStream
  /\ opts \in [chunkSize : {8, 10}, copyBuffers : BOOLEAN,
               littleEndian : BOOLEAN]
  /\ chunks = <<[data |-> Zeros(opts.chunkSize), ref |-> FALSE]>>
  /\ dv = 1
  /\ woffset = 0
  /\ wlength = 0
  /\ written = <<>>
  /\ nwrites = 0
  /\ ret = WRet("new", "ok", Undefined)

NextWriter ==
  \/ Write \/ TypedWrite \/ Utf8 \/ Ascii \/ Peek \/ ReadAll \/ Clear

SpecWriter == InitWriter /\ [][NextWriter]_vars

\* C1: peek() and read() return exactly the concatenation, in call order,
\* of the bytes of every write accepted since construction or the last
\* read()/clear().
C1_ReadIsConcatenation ==
  [][ret'.op \in {"peek", "read"}
       => (ret'.out = "ok" /\ ret'.val = Bytes(written))]_vars

\* C1 witness: a read() returned more bytes than one chunk holds, after at
\* least two accepted writes.
C1_Witness ==
  /\ ret.op = "read" /\ ret.out = "ok"
  /\ Len(ret.val.s) > opts.chunkSize

\* The writer as the step leaves it.
Next_w ==
  [chunks |-> chunks', dv |-> dv', offset |-> woffset', length |-> wlength']

\* C14: a writer call that raises RangeError leaves the length, the chunk
\* list and the bytes peek()/read() return as they were.
C14_RangeErrorWritesNothing ==
  [][(ret'.op \in {"typed", "ascii"} /\ ret'.out = "RangeError")
     => (/\ wlength' = wlength
         /\ chunks' = chunks
         /\ read(Next_w, FALSE) = read(Now, FALSE))]_vars

\* C14 witness: a call was refused by a writer that holds bytes in more
\* than one chunk.
C14_Witness ==
  /\ ret.op \in {"typed", "ascii"} /\ ret.out = "RangeError"
  /\ Len(chunks) > 1 /\ wlength > opts.chunkSize

\* new DataViewWriter(opts), as the constructor leaves it.
Fresh ==
  [chunks |-> <<[data |-> Zeros(opts.chunkSize), ref |-> FALSE]>>,
   dv |-> 1, offset |-> 0, length |-> 0]

\* C15: read() leaves the writer as the constructor made it: the length is
\* 0, a following peek() or read() returns no bytes, and bytes written
\* afterwards come back alone.
C15_ReadResets ==
  [][ret'.op = "read"
       => (/\ ret'.out = "ok"
           /\ wlength' = 0
           /\ Next_w = Fresh
           /\ read(Next_w, FALSE).val = <<>>
           /\ read(Next_w, TRUE).val = <<>>
           /\ \A n \in {1, 9} :
                LET b == Stream(0, n)
                    w == write(Next_w, b, opts.copyBuffers)
                IN w.length = n /\ read(w, TRUE).val = b)]_vars

\* C15 witness: a read() emptied a writer that held more than one chunk.
C15_Witness ==
  /\ ret.op = "read" /\ ret.out = "ok"
  /\ Len(ret.val.s) > opts.chunkSize
  /\ Now = Fresh

\* C16: peek() leaves the length and the contents as they were: a second
\* peek() and a read() return the same bytes, and bytes written afterwards
\* follow them.
C16_PeekKeeps ==
  [][ret'.op = "peek"
       => (/\ ret'.out = "ok"
           /\ wlength' = wlength
           /\ wlength' = Len(ret'.val.s)
           /\ read(Next_w, FALSE).val = ret'.val.s
           /\ read(read(Next_w, FALSE).w, FALSE).val = ret'.val.s
           /\ read(Next_w, TRUE).val = ret'.val.s
           /\ \A n \in {1, 9} :
                LET b == Stream(0, n)
                    w == write(Next_w, b, opts.copyBuffers)
                IN /\ w.length = wlength + n
                   /\ read(w, FALSE).val = ret'.val.s \o b
           /\ LET res == WriteOf("u16", Next_w, Number(FALSE, <<1>>))
              IN /\ res.out = "ok"
                 /\ read(res.w, TRUE).val = ret'.val.s \o res.enc)]_vars

\* C16 witness: a peek() joined the chunks of a writer that held more than
\* one.
C16_Witness ==
  /\ ret.op = "peek" /\ ret.out = "ok"
  /\ Len(ret.val.s) > opts.chunkSize
  /\ Len(chunks) = 1 /\ wlength = Len(ret.val.s)

\* C27: a buffer shorter than chunkSize + 8 is always copied into a chunk of
\* the writer's own, so that only buffers of at least that length are
\* adopted by reference, where a later change of the caller's buffer shows
\* in read() and peek().
C27_SmallBuffersCopied ==
  \A i \in DOMAIN chunks :
    chunks[i].ref => Len(chunks[i].data) >= opts.chunkSize + 8

C32_WriterInvariant ==
  LET n == Len(chunks)
      before == Concat(SubSeq(chunks, 1, n - 1))
  IN /\ n >= 1
     /\ 0 <= woffset
     /\ woffset <= Len(chunks[n].data)
     /\ wlength = Len(before) + woffset
     /\ written = before \o SubSeq(chunks[n].data, 1, woffset)

\* C32 witness: a writer holds bytes in three chunks, the last of them
\* partly filled.
C32_Witness ==
  /\ Len(chunks) = 3
  /\ 0 < woffset
  /\ woffset < Len(chunks[3].data)
  /\ Len(chunks[1].data) # Len(chunks[2].data)

\* C33: whenever a typed write of sz <= 8 bytes stores its value, the last
\* chunk has at least sz free bytes after the cursor and the DataView in use
\* is a non-null view over that same last chunk, after any history of typed
\* writes, in-place and adopted write(buf) calls, peek(), read() and
\* clear(); a typed write never spans two chunks and never writes through a
\* stale view.
C33_TypedWriteRoom ==
  [][ret'.op = "typed"
       => /\ ret'.out # "TypeError"
          /\ \A sz \in 1..8 :
               LET m == makeSpace(Now, sz)
                   k == Len(m.chunks)
               IN /\ k >= 1
                  /\ m.dv = k
                  /\ Len(m.chunks[k].data) - m.offset >= sz
                  /\ Len(m.chunks[k].data) = opts.chunkSize
          /\ ret'.out = "RangeError"
               => /\ chunks' = chunks
                  /\ woffset' = woffset
                  /\ wlength' = wlength
          /\ ret'.out = "ok"
               => LET sz == wlength' - wlength
                      k == Len(chunks')
                      end == Len(written')
                  IN /\ sz \in 1..8
                     /\ dv' = k
                     /\ woffset' >= sz
                     /\ woffset' <= Len(chunks'[k].data)
                     /\ SubSeq(chunks'[k].data, woffset' - sz + 1, woffset')
                          = SubSeq(written', end - sz + 1, end)
                     /\ k \in {Len(chunks), Len(chunks) + 1}]_vars

\* C33 witness: a typed write stored its value in a fresh chunk behind a
\* buffer that write() had adopted by reference.
C33_Witness ==
  /\ ret.op = "typed"
  /\ ret.out = "ok"
  /\ Len(chunks) = 2
  /\ chunks[1].ref
  /\ dv = 2
  /\ woffset \in 1..8
  /\ wlength = Len(chunks[1].data) + woffset

\* C34: the writer never modifies the bytes of a buffer it adopted by
\* reference in write() nor of a buffer it has returned from peek() or
\* read(): every later write of at least one byte lands in a different
\* chunk.  A buffer that is adopted or returned by peek() is a full chunk
\* from then on, read() leaves no chunk behind, and no call changes a byte
\* of a full chunk: it keeps it, or takes it out of the list.
C34_ExposedUntouched ==
  [][LET n == Len(chunks)
         m == Len(chunks')
         Full(cs, i, off) == i < Len(cs) \/ off = Len(cs[i].data)
     IN /\ \A i \in 1..m : chunks'[i].ref => Full(chunks', i, woffset')
        /\ (ret'.op = "peek" /\ ret'.out = "ok")
             => /\ m = 1
                /\ ret'.val = Bytes(chunks'[1].data)
                /\ Full(chunks', 1, woffset')
        /\ (ret'.op = "read" /\ ret'.out = "ok")
             => /\ m = 1
                /\ woffset' = 0
                /\ ~chunks'[1].ref
        /\ ret'.op \in {"write", "typed", "utf8", "ascii"}
             => \A i \in 1..n :
                  (Full(chunks, i, woffset) /\ chunks[i].data # <<>>)
                    => /\ i <= m
                       /\ chunks'[i] = chunks[i]
                       /\ wlength' > wlength => (m > i \/ i < n)]_vars

\* C34 witness: a one-byte write went to a chunk of the writer's own,
\* behind a buffer adopted by reference.
C34_Witness ==
  /\ ret.op = "write"
  /\ Len(chunks) = 3
  /\ chunks[2].ref
  /\ ~chunks[3].ref
  /\ woffset = 1
  /\ Len(chunks[3].data) = opts.chunkSize

\* ------------------------------------------------------------------ Packet
\* A Packet in the middle of a call: its reader, its two records and whether
\* the call has invoked a convert callback.
Get(rec, name) == IF name \in DOMAIN rec THEN rec[name] ELSE Undefined
Put_fresh(rec, name, v) == [n \in {name} |-> v]

\* rec[name] = v
Put(rec, name, v) ==
  [n \in (DOMAIN rec) \cup {name} |-> IF n = name THEN v ELSE rec[n]]

Self == [r |-> Here, packet |-> packet, temp |-> temp, conv |-> FALSE]
PRes(p, out, err) == [p |-> p, out |-> out, err |-> err]
Done(p) == PRes(p, "ok", <<>>)

\* The convert callback of the model returns its value and temp arguments
\* wrapped in an array.
convert(value, name, isTemp) == Arr(<<value, Bool(isTemp)>>)

Packet_store_unguarded(p, name, value, o) ==
  LET res == IF o.convert THEN convert(value, name, o.temp) ELSE value
      q == [p EXCEPT !.conv = p.conv \/ o.convert]
  IN IF o.temp THEN [q EXCEPT !.temp = Put(p.temp, name, res)]
     ELSE [q EXCEPT !.packet = Put(p.packet, name, res)]

\* #store(name, value, opts)
Packet_store(p, name, value, o) ==
  IF ~p.r.truncated
    THEN LET res == IF o.convert THEN convert(value, name, o.temp) ELSE value
             q == [p EXCEPT !.conv = p.conv \/ o.convert]
         IN IF o.temp THEN [q EXCEPT !.temp = Put(p.temp, name, res)]
            ELSE [q EXCEPT !.packet = Put(p.packet, name, res)]
    ELSE p

\* this.#store(name, this.#r.X(...), opts): the read is made first, and
\* what it raises leaves the call before #store.
Stored(p, c, name, o) ==
  IF c.out # "ok" THEN PRes([p EXCEPT !.r = c.r], c.out, c.err)
  ELSE Done(Packet_store([p EXCEPT !.r = c.r], name, c.val, o))

Packet_typed(p, kind, name, o) == Stored(p, ReadOf(kind, p.r), name, o)
\* The keepGoing callbacks handed to while: (i, r) => p.left > 0,
\* i => i < 2 and () => true.
keepGoing(k, it, r) ==
  CASE k = "left" -> Len(bytes) - r.offset > 0
    [] k = "twice" -> it < 2
    [] OTHER -> TRUE

RECURSIVE whileLoop_ahead(_, _, _, _, _)
whileLoop_ahead(r, it, k, fn, res) ==
  IF ~r.truncated /\ keepGoing(k, it + 1, r)
    THEN LET c == Call(IF fn = "iu8" THEN "u8" ELSE fn, r)
             v == IF fn = "iu8" THEN Arr(<<Number(FALSE, <<it>>), c.val>>)
                  ELSE c.val
         IN IF c.out # "ok" THEN c
            ELSE whileLoop_ahead(c.r, it + 1, k, fn, Append(res, v))
    ELSE Ok(r, Arr(res))

RECURSIVE whileLoop(_, _, _, _, _)
\* while (!truncated && keepGoing(it, r)) res.push(read(it++, r)); the read
\* callback "iu8" is (i, rd) => [i, rd.u8()].
whileLoop(r, it, k, fn, res) ==
  IF ~r.truncated /\ keepGoing(k, it, r)
    THEN LET c == Call(IF fn = "iu8" THEN "u8" ELSE fn, r)
             v == IF fn = "iu8" THEN Arr(<<Number(FALSE, <<it>>), c.val>>)
                  ELSE c.val
         IN IF c.out # "ok" THEN c
            ELSE whileLoop(c.r, it + 1, k, fn, Append(res, v))
    ELSE Ok(r, Arr(res))

Packet_while_quiet(p, name, k, fn, o) ==
  LET c == whileLoop(p.r, 0, k, fn, <<>>)
  IN Stored(p, IF c.out # "ok" THEN Ok(c.r, Arr(<<>>)) ELSE c, name, o)

\* while(name, keepGoing, read, opts)
Packet_while(p, name, k, fn, o) ==
  Stored(p, whileLoop(p.r, 0, k, fn, <<>>), name, o)

Packet_reset_reader(p) ==
  Done([p EXCEPT !.r = [offset |-> 0, truncated |-> FALSE]])

\* reset()
Packet_reset(p) ==
  Done([p EXCEPT !.r = [offset |-> 0, truncated |-> FALSE],
                 !.packet = Empty, !.temp = Empty])

\* ------------------------------------------------------------ Packet.bits
\* Bit i (0 on the right) of a big-endian magnitude.
Bit(mag, i) ==
  LET k == i \div 8
  IN IF k >= Len(mag) THEN 0 ELSE (mag[Len(mag) - k] \div Pow2(i % 8)) % 2

\* Bit i of an integer in two's complement of unbounded width.
IntBit(v, i) ==
  IF v.n = 1 /\ \E j \in 0..(i - 1) : Bit(v.s, j) = 1
    THEN 1 - Bit(v.s, i)
    ELSE Bit(v.s, i)

\* The non-negative number whose bit i is b[i], for i in 0..w-1.
FromBits(b, w) ==
  LET n == (w + 7) \div 8
      byte(k) ==
        LET at(j) == IF 8 * k + j < w THEN b[8 * k + j] * Pow2(j) ELSE 0
        IN at(0) + at(1) + at(2) + at(3) + at(4) + at(5) + at(6) + at(7)
  IN Number(FALSE, [i \in 1..n |-> byte(n - i)])

\* ToInt32 of what the bit operators are applied to: undefined and NaN
\* count as 0, a boolean as 0 or 1.
Int32Bit(field, i) ==
  CASE field.t = "number" -> IntBit(field, i)
    [] field.t = "boolean" -> (IF i = 0 THEN field.n ELSE 0)
    [] OTHER -> 0

\* Number((field >> finish) & ((one << diff) - one)); the value is exact
\* while diff <= 53.
Extract(field, finish, diff) ==
  IF field.t = "bigint"
    THEN FromBits([i \in 0..(diff - 1) |-> IntBit(field, i + finish)], diff)
    ELSE LET sh == finish % 32
             d == diff % 32
             at(i) == IF i + sh > 31 THEN 31 ELSE i + sh
         IN FromBits([i \in 0..(d - 1) |-> Int32Bit(field, at(i))], d)

RECURSIVE Flags(_, _, _)
Flags_all(field, set, i) == [k \in 1..Len(set) |-> Str(set[k].flag)]

\* The flags of desc.set whose bit is set, in the order of the entries.
Flags(field, set, i) ==
  IF i > Len(set) THEN <<>>
  ELSE LET rest == Flags(field, set, i + 1)
           \* (field >> start) & one
           bit == IF field.t = "bigint" THEN IntBit(field, set[i].start)
                  ELSE Int32Bit(field, set[i].start % 32)
       IN IF bit = 1
            THEN <<Str(set[i].flag)>> \o rest ELSE rest

noSource_never(field) == FALSE

\* bits: the test that makes the call a no-op,
\* this.#r.allowTruncation && (typeof field === 'undefined').
noSource(field) == allowTruncation /\ field = Undefined

Packet_bits_unswapped(p, desc) ==
  LET field == IF desc.fromTemp THEN Get(p.temp, desc.from)
               ELSE Get(p.packet, desc.from)
      mixed == (field.t = "bigint") # desc.big
      finish == IF desc.finish = -1 THEN desc.start ELSE desc.finish
      hi == desc.start
      lo == finish
      tmp == Extract(field, lo, hi - lo + 1)
      val == IF desc.isSet THEN Val("set", 0, <<>>, Flags(field, desc.set, 1))
             ELSE IF hi = lo THEN Bool(tmp.s # <<>>) ELSE tmp
      o == [temp |-> desc.toTemp, convert |-> desc.convert]
  IN IF noSource(field) THEN Done(p)
     ELSE IF mixed /\ (~desc.isSet \/ desc.set # <<>>)
       THEN PRes(p, "TypeError", <<>>)
     ELSE Done(Packet_store(p, desc.to, val, o))

\* bits(desc).  desc.big says whether start, finish and the set's
\* positions are bigints; mixing them with a field of the other kind
\* raises TypeError.  A finish of -1 stands for a desc without finish.
Packet_bits(p, desc) ==
  LET field == IF desc.fromTemp THEN Get(p.temp, desc.from)
               ELSE Get(p.packet, desc.from)
      mixed == (field.t = "bigint") # desc.big
      finish == IF desc.finish = -1 THEN desc.start ELSE desc.finish
      hi == IF finish > desc.start THEN finish ELSE desc.start
      lo == IF finish > desc.start THEN desc.start ELSE finish
      tmp == Extract(field, lo, hi - lo + 1)
      val == IF desc.isSet THEN Val("set", 0, <<>>, Flags(field, desc.set, 1))
             ELSE IF hi = lo THEN Bool(tmp.s # <<>>) ELSE tmp
      o == [temp |-> desc.toTemp, convert |-> desc.convert]
  IN IF noSource(field) THEN Done(p)
     ELSE IF mixed /\ (~desc.isSet \/ desc.set # <<>>)
       THEN PRes(p, "TypeError", <<>>)
     ELSE Done(Packet_store(p, desc.to, val, o))

\* ------------------------------------------------------- Packet: the calls
\* The name, temp and convert a storing call is made with.
StoreOpts ==
  {[name |-> "a", temp |-> FALSE, convert |-> FALSE],
   [name |-> "b", temp |-> FALSE, convert |-> TRUE],
   [name |-> "a", temp |-> TRUE, convert |-> FALSE]}

\* The descriptions handed to bits.
Descs ==
  {[from |-> "a", fromTemp |-> FALSE, to |-> "b", toTemp |-> FALSE,
    convert |-> FALSE, big |-> FALSE, isSet |-> FALSE, set |-> <<>>,
    start |-> 0, finish |-> -1],
   [from |-> "a", fromTemp |-> TRUE, to |-> "b", toTemp |-> TRUE,
    convert |-> TRUE, big |-> FALSE, isSet |-> FALSE, set |-> <<>>,
    start |-> 1, finish |-> 8],
   [from |-> "a", fromTemp |-> FALSE, to |-> "a", toTemp |-> TRUE,
    convert |-> FALSE, big |-> TRUE, isSet |-> TRUE,
    set |-> <<[flag |-> <<120>>, start |-> 0],
              [flag |-> <<121>>, start |-> 57]>>,
    start |-> 0, finish |-> -1]}

\* What ret records of a Packet call: its name, the flag before it, its
\* outcome and whether it invoked convert.
PRet(op, res) ==
  [op |-> op, was |-> truncated, out |-> res.out, conv |-> res.p.conv,
   err |-> res.err]

\* A Packet call with outcome res.
PacketStep(op, res) ==
  /\ ncalls < MaxCalls
  /\ ncalls' = ncalls + 1
  /\ offset' = res.p.r.offset
  /\ truncated' = res.p.r.truncated
  /\ packet' = res.p.packet
  /\ temp' = res.p.temp
  /\ ret' = PRet(op, res)
  /\ UNCHANGED <<bytes, allowTruncation, little, fatal, writerVars, sinkVars, stream>>

PTyped ==
  \E kind \in Kinds, so \in StoreOpts :
    PacketStep(kind, Packet_typed(Self, kind, so.name, so))

PBytes ==
  \E so \in StoreOpts : 
    PacketStep("bytes", Stored(Self, Reader_bytes(Here, 2), so.name, so))

PAscii ==
  \E so \in StoreOpts : 
    PacketStep("ascii", Stored(Self, Reader_ascii(Here, 1), so.name, so))

PUtf8 ==
  \E so \in StoreOpts : 
    PacketStep("utf8", Stored(Self, Reader_utf8(Here, 1), so.name, so))

PUnused ==
  \E so \in StoreOpts : 
    PacketStep("unused", Stored(Self, Ok(Here, Bytes(subarray(bytes, offset, Len(bytes)))),
                                so.name, so))

PConstant ==
  \E so \in StoreOpts :
    PacketStep("constant",
               Done(Packet_store(Self, so.name, Number(FALSE, <<5>>), so)))

PTimes ==
  \E so \in StoreOpts :
    PacketStep("times",
               Stored(Self, timesLoop(Here, 0, 2, "u8", <<>>), so.name, so))

PWhile ==
  \E so \in StoreOpts, k \in {"left", "twice", "always"} :
    PacketStep("while", Packet_while(Self, so.name, k, "iu8", so))

PBits ==
  \E desc \in Descs :
    /\ (IF desc.fromTemp THEN Get(temp, desc.from)
        ELSE Get(packet, desc.from)).t
         \in {"number", "bigint", "boolean", "NaN", "undefined"}
    /\ PacketStep("bits", Packet_bits(Self, desc))

\* maybe(doIt, fn) with fn = () => this.u8(name)
PMaybe ==
  \E doIt \in BOOLEAN, so \in StoreOpts :
    PacketStep("maybe", IF ~Self.r.truncated /\ doIt
                          THEN Packet_typed(Self, "u8", so.name, so)
                        ELSE Done(Self))

\* complete()
PComplete ==
  LET c == Reader_complete(Self.r)
  IN PacketStep("complete", PRes([Self EXCEPT !.r = c.r], c.out, c.err))

\* reset()
PReset ==
  LET res == Packet_reset(Self)
  IN /\ ncalls' = 0
     /\ offset' = res.p.r.offset
     /\ truncated' = res.p.r.truncated
     /\ packet' = res.p.packet
     /\ temp' = res.p.temp
     /\ ret' = PRet("reset", res)
     /\ UNCHANGED <<bytes, allowTruncation, little, fatal, writerVars, sinkVars, stream>>

\* set truncated(val): this.#r.truncated = val
PSetTruncated ==
  \E v \in BOOLEAN :
    LET res == IF ~v THEN PRes(Self, "Error", <<>>)
               ELSE Done([Self EXCEPT !.r.truncated = TRUE])
    IN PacketStep("set truncated", res)

\* set allowTruncation(val): this.#r.allowTruncation = val
PSetAllowTruncation ==
  \E v \in BOOLEAN :
    /\ ncalls < MaxCalls
    /\ ncalls' = ncalls + 1
    /\ allowTruncation' = (IF v THEN TRUE ELSE allowTruncation)
    /\ ret' = PRet("set allowTruncation",
                   IF v THEN Done(Self) ELSE PRes(Self, "Error", <<>>))
    /\ UNCHANGED <<bytes, offset, truncated, little, fatal, packet, temp>>
    /\ UNCHANGED <<writerVars, sinkVars, stream>>

\* new Packet(new DataViewReader(bytes, opts))
InitPacket ==
  /\ NoSink
  /\ NoWriter
  /\ NoPacket
  /\ NoStream
  /\ \E n \in {2, MaxLen} : bytes = Buffer(2, n)
  /\ offset = 0
  /\ truncated = FALSE
  /\ allowTruncation \in BOOLEAN
  /\ little = FALSE
  /\ fatal = FALSE
  /\ ret = [op |-> "new", was |-> FALSE, out |-> "ok", conv |-> FALSE,
            err |-> <<>>]

NextPacket ==
  \/ PTyped \/ PBytes \/ PAscii \/ PUtf8 \/ PUnused \/ PConstant
  \/ PTimes \/ PWhile \/ PBits \/ PMaybe \/ PComplete \/ PReset
  \/ PSetTruncated \/ PSetAllowTruncation

SpecPacket == InitPacket /\ [][NextPacket]_vars

\* C10: a Packet call other than reset() that changes the output or the
\* temp record leaves the reader not truncated; a call other than reset()
\* made on a truncated reader changes neither record and does not invoke
\* convert.
C10_StoreOnlyIfNotTruncated ==
  [][ret'.op # "reset" =>
       /\ (packet' # packet \/ temp' # temp) => ~truncated'
       /\ truncated => (packet' = packet /\ temp' = temp /\ ~ret'.conv)]_vars

\* C10 witness: a storing call returned on a reader that was truncated
\* before it and whose output record holds a field.
C10_Witness ==
  /\ ret.op \in Kinds \cup {"bytes", "constant", "times", "while", "bits"}
  /\ ret.out = "ok"
  /\ ret.was
  /\ packet # Empty

\* C22: reset() puts the cursor at 0 wherever it was, clears truncated,
\* empties the output and the temp record and leaves allowTruncation and
\* the bytes alone, so that a decode made next gives what it gives on a
\* new Packet over the same bytes.
C22_Reset ==
  [][ret'.op = "reset"
       => LET after == [r |-> [offset |-> offset', truncated |-> truncated'],
                        packet |-> packet', temp |-> temp', conv |-> FALSE]
              new == [r |-> [offset |-> 0, truncated |-> FALSE],
                      packet |-> Empty, temp |-> Empty, conv |-> FALSE]
          IN /\ ret'.out = "ok"
             /\ offset' = 0 /\ ~truncated'
             /\ packet' = Empty /\ temp' = Empty
             /\ allowTruncation' = allowTruncation
             /\ bytes' = bytes
             /\ \A kind \in {"u8", "u32", "i64"}, so \in StoreOpts :
                  Packet_typed(after, kind, so.name, so)
                    = Packet_typed(new, kind, so.name, so)]_vars

\* C22 witness: reset() was called on a truncated reader that allows
\* truncation.
C22_Witness ==
  /\ ret.op = "reset" /\ ret.was
  /\ allowTruncation /\ ~truncated /\ offset = 0
  /\ packet = Empty /\ temp = Empty

\* C23: while() calls keepGoing and read with the iteration numbers 0, 1,
\* 2, ..., each read on a reader that is not truncated; when keepGoing
\* returns false on a reader that is not truncated the field holds the
\* results in call order, one for each iteration keepGoing accepted; and
\* only the last read can be one that passed the end and truncated the
\* reader.
C23_While ==
  [][ret'.op = "while"
       => \A k \in {"left", "twice", "always"} :
            LET c == whileLoop(Here, 0, k, "iu8", <<>>)
                n == Len(c.val.a)
                at(i) == [offset |-> offset + i, truncated |-> FALSE]
                item(i) ==
                  Arr(<<Number(FALSE, <<i>>),
                        IF offset + i < Len(bytes)
                          THEN Number(FALSE, <<bytes[offset + i + 1]>>)
                          ELSE NaN>>)
                field(so) ==
                  LET res == Stored(Self, c, so.name, so)
                  IN Get(IF so.temp THEN res.p.temp ELSE res.p.packet,
                         so.name)
            IN c.out = "ok"
                 => /\ \A i \in 0..(n - 1) :
                         /\ keepGoing(k, i, at(i))
                         /\ i < n - 1 => offset + i < Len(bytes)
                         /\ c.val.a[i + 1] = item(i)
                    /\ truncated => n = 0
                    /\ ~c.r.truncated
                         => /\ ~keepGoing(k, n, c.r)
                            /\ c.r.offset = offset + n
                            /\ \A so \in StoreOpts :
                                 field(so) =
                                   (IF so.convert
                                      THEN convert(c.val, so.name, so.temp)
                                      ELSE c.val)
                    /\ (c.r.truncated /\ ~truncated)
                         => offset + n - 1 >= Len(bytes)]_vars

\* C23 witness: a while() that keepGoing ended stored two indexed results
\* or more.
C23_Witness ==
  /\ ret.op = "while" /\ ret.out = "ok" /\ ~ret.was /\ ~truncated
  /\ "a" \in DOMAIN packet /\ packet.a.t = "array"
  /\ Len(packet.a.a) >= 2
  /\ packet.a.a[2].t = "array"
  /\ packet.a.a[2].a[1] = Number(FALSE, <<1>>)

\* C24: on a reader with allowTruncation enabled, bits() whose source field
\* is absent from the record it is looked up in does nothing: neither
\* record changes, the destination field is not created, convert is not
\* called and the call returns normally.
C24_BitsAbsent ==
  [][(ret'.op = "bits" /\ allowTruncation)
       => /\ \A desc \in Descs :
               LET src == IF desc.fromTemp THEN temp ELSE packet
               IN desc.from \notin DOMAIN src
                    => Packet_bits(Self, desc) = Done(Self)
          /\ (\A desc \in Descs :
                desc.from \notin DOMAIN packet \cup DOMAIN temp)
               => /\ packet' = packet
                  /\ temp' = temp
                  /\ ~ret'.conv
                  /\ ret'.out = "ok"
                  /\ offset' = offset
                  /\ truncated' = truncated]_vars

\* bits() was called on a tolerant reader whose records hold a field but
\* not the source "a".
C24_Witness ==
  /\ ret.op = "bits"
  /\ ret.out = "ok"
  /\ allowTruncation
  /\ ~truncated
  /\ "b" \in DOMAIN packet
  /\ "a" \notin DOMAIN packet \cup DOMAIN temp

\* C26: a storing operation with temp: true (or bits with toTemp) writes
\* only the named field of the temp record and leaves the output record
\* unchanged; without temp it writes only the named field of the output
\* record and leaves the temp record and every other output field
\* unchanged.
C26_TempFrame ==
  [][ret'.op \notin {"new", "reset"}
       => LET Only(old, new, name) ==
                /\ DOMAIN new \subseteq DOMAIN old \cup {name}
                /\ \A m \in DOMAIN old \ {name} :
                     m \in DOMAIN new /\ new[m] = old[m]
              Frame(res, name, isTemp) ==
                IF isTemp
                  THEN res.p.packet = packet /\ Only(temp, res.p.temp, name)
                  ELSE res.p.temp = temp /\ Only(packet, res.p.packet, name)
          IN /\ \E name \in {"a", "b"} :
                  \/ packet' = packet /\ Only(temp, temp', name)
                  \/ temp' = temp /\ Only(packet, packet', name)
             /\ ret'.op \in {"u8", "u32", "i64"}
                  => \A so \in StoreOpts :
                       LET res == Packet_typed(Self, ret'.op, so.name, so)
                       IN /\ Frame(res, so.name, so.temp)
                          /\ (res.out = "ok" /\ ~res.p.r.truncated)
                               => so.name \in DOMAIN (IF so.temp
                                                        THEN res.p.temp
                                                      ELSE res.p.packet)
             /\ ret'.op = "bits"
                  => \A desc \in Descs :
                       Frame(Packet_bits(Self, desc), desc.to,
                             desc.toTemp)]_vars

\* bits() with toTemp and convert has written "b" of the temp record while
\* the output record holds "a" and still has no "b".
C26_Witness ==
  /\ ret.op = "bits"
  /\ ret.out = "ok"
  /\ ret.conv
  /\ DOMAIN temp = {"a", "b"}
  /\ DOMAIN packet = {"a"}

\* C30: a Packet storing operation invoked when the reader is already
\* truncated still advances the reader's cursor by the operation's byte
\* width, even though it stores nothing.
C30_TruncatedAdvances ==
  [][(truncated /\ ret'.op \in Kinds \cup {"bytes"})
       => /\ ret'.out = "ok"
          /\ packet' = packet
          /\ temp' = temp
          /\ offset' = offset + Width(ret'.op, 2)]_vars

BitDescs(big, top) ==
  LET base == [from |-> "a", fromTemp |-> FALSE, to |-> "b",
               toTemp |-> FALSE, convert |-> FALSE, big |-> big,
               isSet |-> FALSE, set |-> <<>>, start |-> 0, finish |-> -1]
  IN {[base EXCEPT !.start = st, !.finish = fi] :
        st \in 0..top, fi \in -1..top}
     \cup {[base EXCEPT !.isSet = TRUE,
                        !.set = <<[flag |-> <<120>>, start |-> i],
                                  [flag |-> <<121>>, start |-> top - i]>>] :
             i \in 0..top}

\* u16('a'), u32('a') or u64('a') as the first call
BSource ==
  \E kind \in {"u16", "u32", "u64"} :
    /\ ncalls = 0
    /\ PacketStep(kind, Packet_typed(Self, kind, "a",
                                     [temp |-> FALSE, convert |-> FALSE]))

\* bits(desc) as the second call; ret keeps desc.
BBits ==
  \E desc \in BitDescs(FALSE, 31) \cup BitDescs(TRUE, 63) :
    LET res == Packet_bits(Self, desc)
    IN /\ ncalls = 1
       /\ ncalls' = 2
       /\ packet' = res.p.packet
       /\ temp' = res.p.temp
       /\ ret' = PRet("bits", res) @@ [desc |-> desc]
       /\ UNCHANGED <<readerVars, writerVars, sinkVars, stream>>

InitBits ==
  /\ NoSink
  /\ NoWriter
  /\ NoPacket
  /\ NoStream
  /\ bytes \in {<<2, 3, 128, 0, 0, 0, 0, 1>>,
                <<128, 0, 0, 1, 127, 255, 255, 254>>,
                <<222, 173, 190, 239, 202, 254, 186, 190>>,
                <<255, 255, 255, 255, 255, 255, 255, 255>>}
  /\ offset = 0
  /\ truncated = FALSE
  /\ allowTruncation \in BOOLEAN
  /\ little = FALSE
  /\ fatal = FALSE
  /\ ret = [op |-> "new", was |-> FALSE, out |-> "ok", conv |-> FALSE,
            err |-> <<>>]

NextBits == BSource \/ BBits

SpecBits == InitBits /\ [][NextBits]_vars

\* What the documentation of bits promises for an unsigned integer v and
\* a start/finish description: floor(v / 2^low) mod 2^width, as a boolean
\* when the range is one bit wide.
BitsOf(v, desc) ==
  LET fi == IF desc.finish = -1 THEN desc.start ELSE desc.finish
      low == IF fi < desc.start THEN fi ELSE desc.start
      width == (IF fi < desc.start THEN desc.start - fi ELSE fi - desc.start)
               + 1
      n == FromBits([i \in 0..(width - 1) |-> Bit(v.s, i + low)], width)
  IN IF width = 1 THEN Bool(n.s # <<>>) ELSE n

\* C11: for an unsigned source v, bits() over low..high stores
\* floor(v / 2^low) mod 2^(high - low + 1) -- for a number source and every
\* range within 0..31 (31..0 included), for a bigint source and every range
\* of at most 53 bits within 0..63 -- and the boolean of the bit when the
\* range is a single bit.
C11_BitsValue ==
  [][(/\ ret'.op = "bits" /\ ~ret'.desc.isSet
      /\ packet.a.t = (IF ret'.desc.big THEN "bigint" ELSE "number")
      /\ ret'.desc.start - ret'.desc.finish < 53
      /\ ret'.desc.finish - ret'.desc.start < 53)
     => (/\ ret'.out = "ok"
         /\ "b" \in DOMAIN packet'
         /\ packet'.b = BitsOf(packet.a, ret'.desc))]_vars

\* C12: bits with {start: a, finish: b} has the outcome of bits with
\* {start: b, finish: a}: the same value of the same kind in the same
\* field, or the same error.
C12_BitsSymmetric ==
  [][(ret'.op = "bits" /\ ~ret'.desc.isSet /\ ret'.desc.finish # -1)
     => LET d == ret'.desc
            swapped == Packet_bits(Self, [d EXCEPT !.start = d.finish,
                                                   !.finish = d.start])
        IN /\ swapped.out = ret'.out
           /\ swapped.p.packet = packet'
           /\ swapped.p.temp = temp']_vars

\* C12 witness: a range given with start below finish stored a non-zero
\* integer.
C12_Witness ==
  /\ ret.op = "bits" /\ ret.out = "ok" /\ ~ret.desc.isSet
  /\ ret.desc.finish > ret.desc.start
  /\ "b" \in DOMAIN packet /\ packet.b.t = "number" /\ packet.b.s # <<>>

\* C13: bits with a flag set stores the Set of exactly the flag names whose
\* index is a 1 bit of the source, for a number source with number indices
\* within 0..31 and a bigint source with bigint indices within 0..63.
C13_FlagSet ==
  [][(/\ ret'.op = "bits" /\ ret'.desc.isSet
      /\ packet.a.t = (IF ret'.desc.big THEN "bigint" ELSE "number"))
     => (/\ ret'.out = "ok"
         /\ "b" \in DOMAIN packet'
         /\ packet'.b.t = "set"
         /\ \A k \in 1..Len(ret'.desc.set) :
              (\E j \in 1..Len(packet'.b.a) :
                 packet'.b.a[j] = Str(ret'.desc.set[k].flag))
              <=> Bit(packet.a.s, ret'.desc.set[k].start) = 1
         /\ \A j \in 1..Len(packet'.b.a) :
              \E k \in 1..Len(ret'.desc.set) :
                packet'.b.a[j] = Str(ret'.desc.set[k].flag))]_vars

\* C13 witness: of two flags exactly one was stored, from a bigint source.
C13_Witness ==
  /\ ret.op = "bits" /\ ret.out = "ok" /\ ret.desc.isSet /\ ret.desc.big
  /\ "b" \in DOMAIN packet /\ Len(packet.b.a) = 1

\* ------------------------------------------------------------- half.ts
\* The float64 a float16 value is in JavaScript: parseHalf computes
\* sign * 2 ** e * m in float64 arithmetic, which is exact for these values.
ToF64(v) ==
  LET sign == IF v.t = "Infinity" THEN v.n ELSE v.s[1]
      m == v.s[2]
      L == CHOOSE k \in 1..11 : Pow2(k - 1) <= m /\ m < Pow2(k)
      biased == v.s[3] + L - 1 + 1023
      top10 == (m - Pow2(L - 1)) * Pow2(11 - L)
      F(b1, b2, b3) == Val("float", 64, <<b1, b2, b3, 0, 0, 0, 0, 0>>, <<>>)
  IN IF v.t = "NaN" THEN NaN
     ELSE IF v.t = "Infinity" THEN F(sign * 128 + 127, 240, 0)
     ELSE IF m = 0 THEN F(sign * 128, 0, 0)
     ELSE F(sign * 128 + (biased \div 16),
            (biased % 16) * 16 + (top10 \div 64), (top10 % 64) * 4)

\* The functions are pure: one call is made on one input.
\* parseHalf(buf) on the two big-endian bytes of the 16-bit pattern p.
HParse ==
  /\ ret.op = "new"
  /\ \E p \in 0..65535 :
       ret' = [op |-> "parseHalf", p |-> p,
               val |-> parseHalf(setUint16(p, FALSE), 0, FALSE)]
  /\ UNCHANGED <<readerVars, writerVars, packetVars, sinkVars, stream>>

\* halfToUint(v) on a float64: every sign and exponent, mantissas that a
\* float16 holds and mantissas that it does not.
HToUint ==
  /\ ret.op = "new"
  /\ \E b1 \in 0..255, b2 \in 0..255, b3 \in {0, 2, 4}, b8 \in {0, 1} :
       LET v == getFloat(<<b1, b2, b3, 0, 0, 0, 0, b8>>, 0, 8, FALSE)
       IN /\ b8 = 1 => b3 = 0
          /\ ret' = [op |-> "halfToUint", v |-> v, out |-> halfToUint(v)]
  /\ UNCHANGED <<readerVars, writerVars, packetVars, sinkVars, stream>>

InitHalf ==
  /\ NoSink
  /\ NoReader
  /\ NoWriter
  /\ NoPacket
  /\ NoStream
  /\ ret = [op |-> "new"]

NextHalf == HParse \/ HToUint

SpecHalf == InitHalf /\ [][NextHalf]_vars

\* C17: a 16-bit pattern that is not a NaN encoding comes back from
\* halfToUint(parseHalf(p)); a number halfToUint accepts comes back, signed
\* zero included, from parseHalf of the two big-endian bytes of its
\* pattern; every NaN pattern decodes to the one NaN.
C17_HalfRoundTrip ==
  [][/\ ret'.op = "parseHalf"
          => LET isNaN == (ret'.p \div 1024) % 32 = 31 /\ ret'.p % 1024 # 0
             IN IF isNaN THEN ret'.val = NaN
                ELSE /\ ret'.val # NaN
                     /\ halfToUint(ToF64(ret'.val)) = ret'.p
     /\ (ret'.op = "halfToUint" /\ ret'.out # -1)
          => ToF64(parseHalf(setUint16(ret'.out, FALSE), 0, FALSE))
               = ret'.v]_vars

\* C17 witnesses: the largest subnormal float16 pattern was decoded, and
\* halfToUint accepted the negative zero.
C17_Witness ==
  \/ ret.op = "parseHalf" /\ ret.p = 1023 /\ ret.val.t = "float"
  \/ /\ ret.op = "halfToUint" /\ ret.out = 32768
     /\ ret.v.s = <<128, 0, 0, 0, 0, 0, 0, 0>>

\* ----------------------------------------------------------- WritableSink
\* A promise is [op, size, state, err, val]: state is "pending", "resolved"
\* or "rejected", and "ready" for a read whose wait was resolved and whose
\* continuation has not run yet.  An error is [name, a, b, c].

waitFor_replacing(size, op) ==
  LET id == Len(promises) + 1
      E(name, a, b, c) == [name |-> name, a |-> a, b |-> b, c |-> c]
      P(state, err) == Append(promises, [op |-> op, size |-> size,
                                         state |-> state, err |-> err,
                                         val |-> <<>>])
  IN /\ Len(promises) < MaxWaits
     /\ ret' = [op |-> op, size |-> size, id |-> id]
     /\ UNCHANGED <<queue, qlen, qoffset, closed>>
     /\ IF size <= 0
          THEN /\ promises' = P("rejected", E("Invalid size", size, 0, 0))
               /\ waiting' = waiting
        ELSE IF size <= qlen
          THEN /\ promises' = P(IF op = "waitFor" THEN "resolved" ELSE "ready",
                                E("none", 0, 0, 0))
               /\ waiting' = waiting
        ELSE IF closed
          THEN /\ promises' = P("rejected",
                                E("TruncationError", qoffset, size, qlen))
               /\ waiting' = [size |-> size, id |-> id]
        ELSE /\ promises' = P("pending", E("none", 0, 0, 0))
             /\ waiting' = [size |-> size, id |-> id]

\* waitFor(size), called directly or by read(size).
waitFor(size, op) ==
  LET id == Len(promises) + 1
      E(name, a, b, c) == [name |-> name, a |-> a, b |-> b, c |-> c]
      P(state, err) == Append(promises, [op |-> op, size |-> size,
                                         state |-> state, err |-> err,
                                         val |-> <<>>])
  IN /\ Len(promises) < MaxWaits
     /\ ret' = [op |-> op, size |-> size, id |-> id]
     /\ UNCHANGED <<queue, qlen, qoffset, closed>>
     /\ IF size <= 0
          THEN /\ promises' = P("rejected", E("Invalid size", size, 0, 0))
               /\ waiting' = waiting
        ELSE IF waiting.id # 0
          THEN /\ promises' = P("rejected",
                                E("Already waiting", waiting.size, size, 0))
               /\ waiting' = waiting
        ELSE IF size <= qlen
          THEN /\ promises' = P(IF op = "waitFor" THEN "resolved" ELSE "ready",
                                E("none", 0, 0, 0))
               /\ waiting' = waiting
        ELSE IF closed
          THEN /\ promises' = P("rejected",
                                E("TruncationError", qoffset, size, qlen))
               /\ waiting' = [size |-> size, id |-> id]
        ELSE /\ promises' = P("pending", E("none", 0, 0, 0))
             /\ waiting' = [size |-> size, id |-> id]

SWaitFor ==
  /\ \E size \in 0..3 : waitFor(size, "waitFor")
  /\ UNCHANGED <<readerVars, writerVars, packetVars, stream>>

\* read(size), up to its await.
SRead ==
  /\ \E size \in 0..3 :
    IF size = 0
      THEN /\ Len(promises) < MaxWaits
           /\ promises' = Append(promises,
                [op |-> "read", size |-> 0, state |-> "resolved",
                 err |-> [name |-> "none", a |-> 0, b |-> 0, c |-> 0],
                 val |-> <<>>])
           /\ ret' = [op |-> "read", size |-> 0, id |-> Len(promises) + 1]
           /\ UNCHANGED <<queue, qlen, qoffset, closed, waiting>>
      ELSE waitFor(size, "read")
  /\ UNCHANGED <<readerVars, writerVars, packetVars, stream>>

\* read(size), after its await: the continuations run in the order in which
\* the waits were resolved.  The read of a peek leaves its promise "peeked"
\* until peek's own continuation has run.
SResume ==
  \E i \in 1..Len(promises) :
    LET size == promises[i].size
        pre(k) == Len(Concat(SubSeq(queue, 1, k)))
        ks == {k \in 1..Len(queue) : pre(k) >= size}
        k == CHOOSE j \in ks : \A other \in ks : j <= other
        last == queue[k].data
        rest == SubSeq(queue, k + 1, Len(queue))
        settle(state, name, val) ==
          [promises EXCEPT ![i].state = state, ![i].err.name = name,
                           ![i].val = val]
    IN /\ promises[i].state = "ready"
       /\ \A j \in 1..(i - 1) : promises[j].state # "ready"
       /\ ret' = [op |-> "resume", size |-> size, id |-> i]
       /\ UNCHANGED <<closed, waiting>>
       /\ IF queue = <<>>
            THEN /\ promises' = settle("rejected", "TypeError", <<>>)
                 /\ UNCHANGED <<queue, qlen, qoffset>>
          ELSE IF ks = {}
            THEN /\ promises' = settle("rejected", "AssertionError", <<>>)
                 /\ queue' = <<>>
                 /\ UNCHANGED <<qlen, qoffset>>
          ELSE /\ promises' = settle(IF promises[i].op = "peek" THEN "peeked"
                                     ELSE "resolved", "none",
                                     SubSeq(Concat(queue), 1, size))
               /\ queue' = IF pre(k) = size THEN rest
                           ELSE <<[data |-> SubSeq(last,
                                     Len(last) - (pre(k) - size) + 1,
                                     Len(last))]>> \o rest
               /\ qlen' = qlen - size
               /\ qoffset' = qoffset + size
    /\ UNCHANGED <<readerVars, writerVars, packetVars, stream>>

\* peek(size), up to the await in the read(size) it calls.
SPeek ==
  /\ \E size \in 0..3 :
    IF size = 0
      THEN /\ Len(promises) < MaxWaits
           /\ promises' = Append(promises,
                [op |-> "peek", size |-> 0, state |-> "peeked",
                 err |-> [name |-> "none", a |-> 0, b |-> 0, c |-> 0],
                 val |-> <<>>])
           /\ ret' = [op |-> "peek", size |-> 0, id |-> Len(promises) + 1]
           /\ UNCHANGED <<queue, qlen, qoffset, closed, waiting>>
      ELSE waitFor(size, "peek")
  /\ UNCHANGED <<readerVars, writerVars, packetVars, stream>>

SPeekDone_consumed ==
  \E i \in 1..Len(promises) :
    /\ promises[i].state = "peeked"
    /\ promises' = [promises EXCEPT ![i].state = "resolved"]
    /\ ret' = [op |-> "peeked", size |-> promises[i].size, id |-> i]
    /\ UNCHANGED <<queue, qlen, qoffset, closed, waiting>>
    /\ UNCHANGED <<readerVars, writerVars, packetVars, stream>>

\* peek(size), after its await: the bytes read are put back in front of the
\* queue.
SPeekDone ==
  \E i \in 1..Len(promises) :
    LET buf == promises[i].val
    IN /\ promises[i].state = "peeked"
       /\ queue' = <<[data |-> buf]>> \o queue
       /\ qlen' = qlen + Len(buf)
       /\ qoffset' = qoffset - Len(buf)
       /\ promises' = [promises EXCEPT ![i].state = "resolved"]
       /\ ret' = [op |-> "peeked", size |-> promises[i].size, id |-> i]
       /\ UNCHANGED <<closed, waiting>>
       /\ UNCHANGED <<readerVars, writerVars, packetVars, stream>>

\* write(chunk): the stream delivers a chunk, which it does only while it
\* is neither closed nor aborted; #push(chunk).
SWrite ==
  \E n \in {1, 2} :
    LET total == qlen + n
        done == waiting.id # 0 /\ waiting.size <= total
    IN /\ ~closed
       /\ qlen + qoffset + n <= MaxQueued
       /\ queue' = Append(queue, [data |-> Stream(qlen + qoffset, n)])
       /\ qlen' = total
       /\ waiting' = IF done THEN [size |-> 0, id |-> 0] ELSE waiting
       /\ promises' =
            IF done /\ promises[waiting.id].state = "pending"
              THEN [promises EXCEPT ![waiting.id].state =
                      IF promises[waiting.id].op = "waitFor" THEN "resolved"
                      ELSE "ready"]
              ELSE promises
       /\ ret' = [op |-> "write", size |-> n, id |-> 0]
       /\ UNCHANGED <<qoffset, closed>>
       /\ UNCHANGED <<readerVars, writerVars, packetVars, stream>>

SClose_keep ==
  /\ ~closed
  /\ closed' = TRUE
  /\ waiting' = waiting
  /\ promises' =
       IF waiting.id # 0 /\ promises[waiting.id].state = "pending"
         THEN [promises EXCEPT ![waiting.id].state = "rejected",
                 ![waiting.id].err = [name |-> "TruncationError",
                                      a |-> qoffset, b |-> waiting.size,
                                      c |-> qlen]]
         ELSE promises
  /\ ret' = [op |-> "close", size |-> 0, id |-> waiting.id]
  /\ UNCHANGED <<queue, qlen, qoffset>>
  /\ UNCHANGED <<readerVars, writerVars, packetVars, stream>>

\* close() and abort(reason): the stream calls one of them, once.
SClose ==
  /\ ~closed
  /\ closed' = TRUE
  /\ waiting' = [size |-> 0, id |-> 0]
  /\ promises' =
       IF waiting.id # 0 /\ promises[waiting.id].state = "pending"
         THEN [promises EXCEPT ![waiting.id].state = "rejected",
                 ![waiting.id].err = [name |-> "TruncationError",
                                      a |-> qoffset, b |-> waiting.size,
                                      c |-> qlen]]
         ELSE promises
  /\ ret' = [op |-> "close", size |-> 0, id |-> waiting.id]
  /\ UNCHANGED <<queue, qlen, qoffset>>
  /\ UNCHANGED <<readerVars, writerVars, packetVars, stream>>

SAbort_silent ==
  /\ ~closed
  /\ closed' = TRUE
  /\ waiting' = [size |-> 0, id |-> 0]
  /\ promises' = promises
  /\ ret' = [op |-> "abort", size |-> 0, id |-> waiting.id]
  /\ UNCHANGED <<queue, qlen, qoffset>>
  /\ UNCHANGED <<readerVars, writerVars, packetVars, stream>>

\* abort(reason)
SAbort ==
  /\ ~closed
  /\ closed' = TRUE
  /\ waiting' = [size |-> 0, id |-> 0]
  /\ promises' =
       IF waiting.id # 0 /\ promises[waiting.id].state = "pending"
         THEN [promises EXCEPT ![waiting.id].state = "rejected",
                 ![waiting.id].err = [name |-> "reason", a |-> 0, b |-> 0,
                                      c |-> 0]]
         ELSE promises
  /\ ret' = [op |-> "abort", size |-> 0, id |-> waiting.id]
  /\ UNCHANGED <<queue, qlen, qoffset>>
  /\ UNCHANGED <<readerVars, writerVars, packetVars, stream>>

\* new WritableSink(opts), without input or with two bytes of it.
InitSink ==
  /\ NoReader
  /\ NoWriter
  /\ NoPacket
  /\ NoStream
  /\ queue \in {<<>>, <<[data |-> Stream(0, 2)]>>}
  /\ qlen = Len(Concat(queue))
  /\ qoffset = 0
  /\ closed = FALSE
  /\ waiting = [size |-> 0, id |-> 0]
  /\ promises = <<>>
  /\ ret = [op |-> "new", size |-> 0, id |-> 0]

NextSink ==
  \/ SWaitFor \/ SRead \/ SResume \/ SWrite \/ SClose \/ SAbort

SpecSink == InitSink /\ [][NextSink]_vars

\* C18 as stated: while a wait is pending every further waitFor call is
\* rejected with 'Already waiting', the pending wait stays registered and
\* unsettled, a wait leaves the slot only settled, and no wait is pending
\* outside the slot, so that at most one is outstanding.
C18_AlreadyWaiting ==
  [][/\ (/\ ret'.op = "waitFor" \/ (ret'.op = "read" /\ ret'.size # 0)
         /\ waiting.id # 0
         /\ promises[waiting.id].state = "pending")
          => /\ promises'[ret'.id].state = "rejected"
             /\ promises'[ret'.id].err.name = "Already waiting"
             /\ waiting' = waiting
             /\ promises'[waiting.id] = promises[waiting.id]
     /\ (waiting.id # 0 /\ waiting'.id # waiting.id)
          => promises'[waiting.id].state # "pending"
     /\ \A i \in 1..Len(promises') :
          promises'[i].state = "pending" => waiting'.id = i]_vars

\* C18, amended: while a wait is pending a further waitFor call is rejected
\* with 'Invalid size' when its size is not positive and with 'Already
\* waiting' otherwise; in both cases the pending wait stays registered and
\* unsettled, a wait leaves the slot only settled, and no wait is pending
\* outside the slot.
C18_OneWait ==
  [][/\ (/\ ret'.op = "waitFor" \/ (ret'.op = "read" /\ ret'.size # 0)
         /\ waiting.id # 0
         /\ promises[waiting.id].state = "pending")
          => /\ promises'[ret'.id].state = "rejected"
             /\ promises'[ret'.id].err.name =
                  (IF ret'.size <= 0 THEN "Invalid size"
                   ELSE "Already waiting")
             /\ waiting' = waiting
             /\ promises'[waiting.id] = promises[waiting.id]
     /\ (waiting.id # 0 /\ waiting'.id # waiting.id)
          => promises'[waiting.id].state # "pending"
     /\ \A i \in 1..Len(promises') :
          promises'[i].state = "pending" => waiting'.id = i]_vars

\* C18 witness: a waitFor was rejected with 'Already waiting' while an
\* earlier wait is registered and pending.
C18_Witness ==
  /\ ret.op = "waitFor"
  /\ promises[ret.id].err.name = "Already waiting"
  /\ waiting.id # 0 /\ waiting.id < ret.id
  /\ promises[waiting.id].state = "pending"

\* C19 as stated: close() and abort() reject the outstanding wait with
\* TruncationError(offset, requested size, queued length) and clear the
\* slot.
C19_CloseAbortTruncation ==
  [][(/\ ret'.op \in {"close", "abort"}
      /\ waiting.id # 0
      /\ promises[waiting.id].state = "pending")
       => /\ promises'[waiting.id].state = "rejected"
          /\ promises'[waiting.id].err =
               [name |-> "TruncationError", a |-> qoffset,
                b |-> waiting.size, c |-> qlen]
          /\ waiting'.id = 0]_vars

\* C19, amended: close() rejects the outstanding wait with
\* TruncationError(offset, requested size, queued length), abort(reason)
\* rejects it with the reason it was given, and both clear the slot.
C19_CloseAbortReject ==
  [][(/\ ret'.op \in {"close", "abort"}
      /\ waiting.id # 0
      /\ promises[waiting.id].state = "pending")
       => /\ promises'[waiting.id].state = "rejected"
          /\ promises'[waiting.id].err =
               (IF ret'.op = "close"
                  THEN [name |-> "TruncationError", a |-> qoffset,
                        b |-> waiting.size, c |-> qlen]
                  ELSE [name |-> "reason", a |-> 0, b |-> 0, c |-> 0])
          /\ waiting'.id = 0]_vars

\* C19 witness: close() rejected a wait for more bytes than were queued,
\* after some bytes had been read.
C19_Witness ==
  /\ ret.op = "close" /\ ret.id # 0
  /\ promises[ret.id].err.name = "TruncationError"
  /\ promises[ret.id].err.a > 0 /\ promises[ret.id].err.c > 0
  /\ waiting.id = 0 /\ closed

\* C20: on a closed or aborted sink every waitFor(size) and read(size)
\* asking for more than the queued bytes is rejected with
\* TruncationError(offset, size, queued length), and one that fits is not
\* rejected.
C20_ClosedTruncation ==
  [][(/\ ret'.op \in {"waitFor", "read"}
      /\ ret'.size > 0
      /\ closed)
       => IF ret'.size > qlen
            THEN /\ promises'[ret'.id].state = "rejected"
                 /\ promises'[ret'.id].err =
                      [name |-> "TruncationError", a |-> qoffset,
                       b |-> ret'.size, c |-> qlen]
            ELSE promises'[ret'.id].state \in {"resolved", "ready"}]_vars

\* C36: every sink read(size) that fulfils returns exactly size bytes, the
\* next size bytes of the stream in arrival order, with no byte delivered
\* twice or skipped, also when several read() calls are started before
\* earlier ones have resumed after their availability check; the queued
\* length never becomes negative and no read dequeues from an empty queue.
C36_ReadsInOrder ==
  [][ret'.op = "resume"
       => LET i == ret'.id
              size == promises[i].size
          IN /\ queue # <<>>
             /\ Len(Concat(queue)) >= size
             /\ qlen' >= 0
             /\ promises'[i].state = "resolved"
                  => promises'[i].val = Stream(qoffset, size)]_vars

\* C37: for the sink, after every completed operation the queued length
\* equals the sum of the lengths of the queued chunks, and offset + length
\* equals the total number of bytes pushed so far; a fulfilled read(size)
\* moves exactly size from length to offset.
C37_SinkAccounting ==
  [][/\ qlen' = Len(Concat(queue'))
     /\ qlen' + qoffset'
          = qlen + qoffset + (IF ret'.op = "write" THEN ret'.size ELSE 0)
     /\ (ret'.op = "resume" /\ promises'[ret'.id].state = "resolved")
          => /\ qlen' = qlen - ret'.size
             /\ qoffset' = qoffset + ret'.size]_vars

\* The sink with a stream that ends: the producer of a WritableStream closes
\* or aborts it after its last chunk, so close() or abort() is eventually
\* called.
SpecSinkLive == InitSink /\ [][NextSink]_vars /\ WF_vars(SClose \/ SAbort)

NextPeek == SPeek \/ SPeekDone \/ SRead \/ SResume \/ SWrite

SpecPeek == InitSink /\ [][NextPeek]_vars

\* C28: sink peek(size) returns the next size bytes without consuming them:
\* the read it makes takes size bytes from the front of the queue, and its
\* continuation puts them back, so that once it fulfils, length and offset
\* are what they were before that read, the queued bytes are the same, and
\* a following read(size) returns the bytes peek returned.
C28_PeekKeeps ==
  [][LET i == ret'.id
         size == promises[i].size
         buf == promises'[i].val
     IN /\ (ret'.op = "resume" /\ promises'[i].state = "peeked")
             => /\ Len(buf) = size
                /\ Concat(queue) = buf \o Concat(queue')
                /\ qlen' = qlen - size
                /\ qoffset' = qoffset + size
        /\ ret'.op = "peeked"
             => /\ promises'[i].state = "resolved"
                /\ buf = promises[i].val
                /\ Len(buf) = size
                /\ Concat(queue') = buf \o Concat(queue)
                /\ qlen' = qlen + size
                /\ qoffset' = qoffset - size
                /\ (size > 0 /\ waiting'.id = 0)
                     => /\ size <= qlen'
                        /\ queue' # <<>>
                        /\ SubSeq(Concat(queue'), 1, size) = buf]_vars

\* peek(1) has fulfilled on a sink constructed with two bytes: the chunk is
\* cut in two, and nothing has been consumed.
C28_Witness ==
  /\ ret.op = "peeked"
  /\ ret.size = 1
  /\ promises[ret.id].state = "resolved"
  /\ Len(queue) = 2
  /\ promises[ret.id].val = queue[1].data
  /\ Len(queue[1].data) = 1
  /\ qlen = 2
  /\ qoffset = 0

\* ------------------------------------------------- DataViewReadableStream
\* stream is [chunkSize, littleEndian, chunk, offset, enqueued, closed,
\* written, n]: #opts, #chunk and #offset, the chunks handed to
\* #controller.enqueue in order, whether #controller was closed, the bytes
\* of the writes that returned and how many they are, at most MaxWrites.

\* flush(): #enq(#chunk.subarray(0, #offset)), then #alloc(); enqueue raises
\* TypeError on a closed controller, before anything was changed.
Stream_flush(s) ==
  IF s.offset = 0 THEN [s |-> s, out |-> "ok"]
  ELSE IF s.closed THEN [s |-> s, out |-> "TypeError"]
  ELSE [s |-> [s EXCEPT !.enqueued =
                          Append(@, [data |-> SubSeq(s.chunk, 1, s.offset),
                                     ref |-> FALSE]),
                        !.chunk = Zeros(s.chunkSize),
                        !.offset = 0],
        out |-> "ok"]

Stream_makeSpace_typed(s, sz) ==
  IF Len(s.chunk) - s.offset < (IF sz < 8 THEN sz ELSE 8)
    THEN Stream_flush(s) ELSE [s |-> s, out |-> "ok"]

\* #makeSpace(sz)
Stream_makeSpace(s, sz) ==
  IF Len(s.chunk) - s.offset < sz
    THEN Stream_flush(s) ELSE [s |-> s, out |-> "ok"]

\* u8(n), u16(n), u32(n), u64(n): intRange, #makeSpace(sz), the setter of
\* the view at #offset, #advance(sz).
StreamTyped ==
  \E sz \in {1, 2, 4, 8}, n \in {<<7>>, <<1, 2>>} :
    LET v == IF sz = 8 THEN BigInt(FALSE, n) ELSE Number(FALSE, n)
        top == IF sz = 8 THEN BigInt(FALSE, [i \in 1..sz |-> 255])
               ELSE Number(FALSE, [i \in 1..sz |-> 255])
        enc == setInt(v, sz, stream.littleEndian)
        m == Stream_makeSpace(stream, sz)
        out == IF intRange(v, [top EXCEPT !.s = <<>>], top) THEN "RangeError"
               ELSE m.out
    IN /\ stream.n < MaxWrites
       /\ ret' = [op |-> "typed", size |-> sz, out |-> out]
       /\ stream' =
            IF out # "ok" THEN stream
            ELSE [m.s EXCEPT !.chunk = setBytes(@, enc, m.s.offset),
                             !.offset = @ + sz,
                             !.written = @ \o enc,
                             !.n = @ + 1]
       /\ UNCHANGED <<readerVars, writerVars, packetVars, sinkVars>>

\* bytes(buf, copy): #makeSpace(len + 8); a buffer longer than chunkSize - 8
\* is enqueued itself, or as a copy, and a shorter one is copied into the
\* chunk.
StreamBytes ==
  \E len \in {0, 1, 2, 3}, copy \in BOOLEAN :
    LET buf == Stream(Len(stream.written), len)
        m == Stream_makeSpace(stream, len + 8)
        direct == len > stream.chunkSize - 8
        out == IF m.out = "ok" /\ direct /\ m.s.closed THEN "TypeError"
               ELSE m.out
    IN /\ stream.n < MaxWrites
       /\ ret' = [op |-> "bytes", size |-> len, out |-> out]
       /\ stream' =
            IF out # "ok" THEN stream
            ELSE IF direct
              THEN [m.s EXCEPT !.enqueued =
                                 Append(@, [data |-> buf, ref |-> ~copy]),
                               !.written = @ \o buf,
                               !.n = @ + 1]
            ELSE [m.s EXCEPT !.chunk = setBytes(@, buf, m.s.offset),
                             !.offset = @ + len,
                             !.written = @ \o buf,
                               !.n = @ + 1]
       /\ UNCHANGED <<readerVars, writerVars, packetVars, sinkVars>>

\* flush()
StreamFlush ==
  LET f == Stream_flush(stream)
  IN /\ ret' = [op |-> "flush", size |-> 0, out |-> f.out]
     /\ stream' = f.s
     /\ UNCHANGED <<readerVars, writerVars, packetVars, sinkVars>>

\* end(): flush(), then #controller.close(), which raises TypeError on a
\* closed controller.
StreamEnd ==
  LET f == Stream_flush(stream)
      out == IF f.out = "ok" /\ f.s.closed THEN "TypeError" ELSE f.out
  IN /\ ret' = [op |-> "end", size |-> 0, out |-> out]
     /\ stream' = IF out = "ok" THEN [f.s EXCEPT !.closed = TRUE] ELSE f.s
     /\ UNCHANGED <<readerVars, writerVars, packetVars, sinkVars>>

\* await DataViewReadableStream.create(options), with the smallest chunk
\* size the constructor accepts or one two bytes larger.
InitStream ==
  /\ NoReader
  /\ NoWriter
  /\ NoPacket
  /\ NoSink
  /\ \E size \in {8, 10}, le \in BOOLEAN :
       stream = [chunkSize |-> size, littleEndian |-> le,
                 chunk |-> Zeros(size), offset |-> 0, enqueued |-> <<>>,
                 closed |-> FALSE, written |-> <<>>, n |-> 0]
  /\ ret = [op |-> "new", size |-> 0, out |-> "ok"]

NextStream == StreamTyped \/ StreamBytes \/ StreamFlush \/ StreamEnd

SpecStream == InitStream /\ [][NextStream]_vars

\* C39: for DataViewReadableStream the chunks enqueued, concatenated in
\* enqueue order and followed by the bytes pending in the current chunk,
\* are the bytes of all typed writes and bytes() calls in call order, so
\* that a buffer enqueued directly never comes ahead of bytes that were
\* pending; and after end() nothing is pending.
C39_StreamOrder ==
  /\ stream.offset \in 0..Len(stream.chunk)
  /\ Len(stream.chunk) = stream.chunkSize
  /\ Concat(stream.enqueued) \o SubSeq(stream.chunk, 1, stream.offset)
       = stream.written
  /\ (ret.op = "end" /\ ret.out = "ok") => (stream.offset = 0 /\ stream.closed)

\* C39 witness: bytes() enqueued a three-byte buffer directly while one or
\* two bytes were pending in a ten-byte chunk; they were enqueued first.
C39_Witness ==
  /\ ret.op = "bytes" /\ ret.out = "ok" /\ ret.size = 3
  /\ stream.chunkSize = 10
  /\ Len(stream.enqueued) = 2
  /\ Len(stream.enqueued[1].data) \in {1, 2}
  /\ ~stream.enqueued[1].ref
  /\ stream.enqueued[2].ref
  /\ stream.offset = 0

====
